---------------------------- MODULE Spec2Model ----------------------------
(***************************************************************************)
(* idacpp::callbacks::callback_registry<CPrototype, MaxCallbacks, Tag>     *)
(* (include/idacpp/callbacks/callbacks.hpp, and its legacy twin            *)
(* xcallbacks.hpp): a fixed table of std::function closures guarded by a   *)
(* std::shared_mutex, with one generated trampoline per slot index.        *)
(*                                                                         *)
(* The bridged signature takes one int and returns an int.  Threads call   *)
(* the public methods and the trampolines; every method is split at its    *)
(* lock operations and between its closure store and its handle store.     *)
(*                                                                         *)
(* Also modelled: idacpp::core::objcontainer_t (core.hpp, xpro.hpp), a     *)
(* vector of owned objects with negative indexing; and                     *)
(* idacpp::hexrays::keep_lca_cinsns (hexrays.hpp), which filters a list of *)
(* ctree instructions by ancestry; and idacpp::kernwin::action_manager_t   *)
(* (idacpp.hpp, xkernwin.hpp): the owned action handlers and the two popup *)
(* lists, without the popup paths.                                         *)
(***************************************************************************)
EXTENDS Integers, FiniteSets, Sequences, TLC

\* ------------------------------------------------------------------ bounds
\* Template parameter MaxCallbacks (256 by default in the source).
MaxCallbacks == 2
\* Width in bits of callback_handle_t (uint32_t in the source), scaled down so
\* that the wrap of next_handle_ is within reach of the model checker.
HandleBits == 2
\* Threads of the host process that use the registry.
NumThreads == 2
\* Calls the threads issue in total in a concurrent run (Spec).
MaxCalls == 4
\* Calls the single thread issues in a sequential run (SeqSpec).
MaxSeqCalls == 7
\* Calls the single thread issues when closures may re-enter (ReSeqSpec).
MaxReSeqCalls == 5
\* Calls the threads issue in total in a fair concurrent run (LiveSpec).
MaxLiveCalls == 3
\* Calls the threads issue in total when several registries are in use (MultiSpec).
MaxMultiCalls == 3
\* Calls the single thread issues when it owns scoped objects (ScopedSpec).
MaxScopedCalls == 5
MaxMoveCalls == 6
\* Calls two threads issue in total in a run of registrations, invocations
\* and unregistrations (FlightSpec).
MaxFlightCalls == 6
\* scoped_callback objects the host has room for.
NumObjs == 2
\* Template parameter MaxCallbacks of a second registry instantiation.
OtherMaxCallbacks == 1
\* Objects an objcontainer_t is given in a run (ContainerSpec).
MaxObjects == 3
\* Handlers an action_manager_t creates in a run (ActionSpec).
MaxHandlers == 3
\* Items of the ctree a run of keep_lca_cinsns works on (LcaSpec).
NumItems == 4
\* Greatest length of the instruction list passed to keep_lca_cinsns.
MaxListLen == 3
\* Width in bits of int (32 in the source), scaled down.
IntBits == 4
\* Width in bits of size_t (64 in the source), scaled down; wider than int.
SizeBits == 6

\* ---------------------------------------------------------------- constants
INVALID_CALLBACK_HANDLE == 0

NullPtr == -1

Slots == 0 .. (MaxCallbacks - 1)

HandleModulus == 2 ^ HandleBits

Handles == 0 .. (HandleModulus - 1)

Threads == 1 .. NumThreads

\* scoped_callback objects (storage locations) of the host.
Objs == 1 .. NumObjs

\* Slots of the registry of the other triple.
OtherSlots == 0 .. (OtherMaxCallbacks - 1)

NoThread == 0

\* std::function<int(int)> values: two callable targets and the empty function
\* (default-constructed, or assigned nullptr); "!cb" is true of Empty only.
Closures == {"f1", "f2"}

Empty == "empty"

Lambdas == Closures \cup {Empty}

\* Closures that re-enter the registry they are registered in: the body calls
\* unregister_callback on the closure's own handle, register_callback,
\* unregister_all or size, and returns that call's result as an int.
ReClosures == {"re_unregister", "re_register", "re_unregister_all", "re_size"}

\* Arguments the trampolines are invoked with.
Args == {0, 5}

\* return_t{} of the bridged signature int(int).
DefaultValue == 0

\* What calling a std::function directly yields: the target's result, or
\* std::bad_function_call for the empty function.
BadFunctionCall == -1

Apply(cb, a) ==
    CASE cb = "f1" -> a + 1
      [] cb = "f2" -> a * 2
      [] OTHER -> BadFunctionCall

\* The end of wrapper_function:
\* if (callback_copy) return callback_copy(args...);  return return_t{};
InvokeCopy_Unchecked(copy, a) == Apply(copy, a)

InvokeCopy(copy, a) == IF copy # Empty THEN Apply(copy, a) ELSE DefaultValue

\* ------------------------------------------------------------------- state
VARIABLES
    callbacks_,     \* std::array<lambda_t, MaxCallbacks>
    handles_,       \* std::array<callback_handle_t, MaxCallbacks>
    next_handle_,   \* callback_handle_t, starts at 1
    writer,         \* thread that owns mutex_ exclusively, or NoThread
    readers,        \* threads that own mutex_ shared
    pc,             \* each thread's position
    loc,            \* each thread's arguments, locals and result
    left,           \* calls the run may still issue
    active,         \* threads that issue calls in this run
    \* history of the run, read by the properties only
    regs,           \* <<handle, slot>> pairs returned by registrations -> record
    slotReg,        \* handle under which the closure now in a slot was stored
    issued,         \* handle values returned so far
    reissued,       \* a handle value was returned a second time
    wrapped,        \* next_handle_++ has overflowed
    nOk,            \* register_callback calls that returned a pair
    nFull,          \* register_callback calls that returned nullopt
    anyUnreg,       \* unregister_callback or unregister_all was called
    anyEmpty,       \* register_callback was called with the empty function
    \* callers of the registry other than plain host calls
    frame,          \* each thread's enclosing call: a scoped_callback method or a closure
    objs,           \* the scoped_callback objects: lifetime, handle_, callback_
    scoped,         \* history: registrations made by scoped_callback constructors
    other,          \* the registries of other (signature, capacity, tag) triples
    otherHist,      \* history: per triple, the table its own operations produce
    \* objcontainer_t
    objects,        \* the vector: the owned objects in order
    query,          \* the last operator[] call: index, computed idx, returned pointer
    \* keep_lca_cinsns
    parent,         \* ctreeparent_visitor_t::parent: item -> parent item
    bulk_list,      \* the caller's cinsnptrvec_t
    new_list,       \* the local cinsnptrvec_t
    lca,            \* position in keep_lca_cinsns, and the list it was called with
    \* action_manager_t
    am              \* action_handlers, want_hxe_popup, want_ida_popup, the host's
                    \* registered actions, and the last call with its result

table == <<callbacks_, handles_, next_handle_>>

lockVars == <<writer, readers>>

histVars == <<regs, slotReg, issued, reissued, wrapped, nOk, nFull, anyUnreg, anyEmpty>>

libVars == <<objects, query, parent, bulk_list, new_list, lca, am>>

envVars == <<active, frame, objs, scoped, other, otherHist, libVars>>

vars == <<callbacks_, handles_, next_handle_, writer, readers, pc, loc, left, envVars,
          regs, slotReg, issued, reissued, wrapped, nOk, nFull, anyUnreg, anyEmpty,
          frame, objs, scoped, other, otherHist, libVars>>

NoHandle == -1

NoLoc ==
    [op |-> "none", cb |-> Empty, h |-> 0, idx |-> 0, arg |-> 0,
     copy |-> Empty, ok |-> FALSE, val |-> 0, ptr |-> NullPtr,
     copyReg |-> NoHandle, known |-> {}, dead0 |-> {}, sawCleared |-> FALSE,
     src |-> 0]

\* A thread's enclosing call: sop names the scoped_callback method (or
\* "closure" for a closure that is running), obj and src its objects, saved
\* the trampoline's locals while the closure it called is inside the registry;
\* srcLive is history: the source of a move held a registration that was in
\* the table when operator= was entered.
NoFrame == [sop |-> "none", obj |-> 0, src |-> 0, srcLive |-> FALSE, full |-> FALSE,
            saved |-> NoLoc]

NoObject == 0

\* A scoped_callback object: alive between construction and destruction.
NoObj == [alive |-> FALSE, handle_ |-> INVALID_CALLBACK_HANDLE, callback_ |-> NullPtr]

\* An object that holds nothing: handle_(INVALID_CALLBACK_HANDLE), callback_(nullptr).
InvalidObj == [alive |-> TRUE, handle_ |-> INVALID_CALLBACK_HANDLE, callback_ |-> NullPtr]

\* explicit operator bool() / is_valid(): callback_ != nullptr
is_valid(obj) == obj.callback_ # NullPtr

\* The (signature, capacity, tag) triple of the registry modelled in full, and
\* the triples of two more instantiations, which differ in their tag only
\* (as two DEFINE_CALLBACK_REGISTRY of one prototype and size do).
MainTriple == <<"int(int)", MaxCallbacks, "void">>

OtherTriples == {<<"int(int)", OtherMaxCallbacks, "a_tag">>,
                 <<"int(int)", OtherMaxCallbacks, "b_tag">>}

\* instance(): the function-local static of the instantiation, one object per
\* triple of template arguments.
instance_PerPrototype(T) == <<T[1], T[2]>>

instance(T) == T

\* A registry as constructed: its callbacks_, handles_, next_handle_.
FreshRegistry ==
    [callbacks_ |-> [i \in OtherSlots |-> Empty],
     handles_ |-> [i \in OtherSlots |-> INVALID_CALLBACK_HANDLE],
     next_handle_ |-> 1]

FreshOther == [inst \in {instance(T) : T \in OtherTriples} |-> FreshRegistry]

NoReg == [st |-> "none", cb |-> Empty, touched |-> FALSE, quiet |-> FALSE, reused |-> FALSE]

\* The history's record of the pair k = <<handle, slot>>.
Reg(k) == IF k \in DOMAIN regs THEN regs[k] ELSE NoReg

\* ------------------------------------------------------------------ helpers
\* The compile-time table of trampolines: the entry point of slot index is
\* named by the index itself.
get_wrapper_for_index(index) ==
    IF index < MaxCallbacks THEN index ELSE NullPtr

\* A scan that falls back to an occupied slot when none is free: the
\* alternative against which the no-mutation-when-full property is tested.
FreeSlots_Evict ==
    IF \A i \in Slots : callbacks_[i] # Empty
    THEN Slots
    ELSE {i \in Slots : callbacks_[i] = Empty}

\* register_callback's scan: the slots i with !callbacks_[i].
FreeSlots == {i \in Slots : callbacks_[i] = Empty}

\* unregister_callback's scan: the slots i with handles_[i] == handle && callbacks_[i].
MatchingSlots_AnyHandle(handle) == {i \in Slots : callbacks_[i] # Empty}

MatchingSlots(handle) ==
    {i \in Slots : handles_[i] = handle /\ callbacks_[i] # Empty}

\* A scan that runs from the last index down.
FirstOf_Highest(S) == CHOOSE i \in S : \A j \in S : i >= j

\* for (size_t i = 0; i < MaxCallbacks; ++i): the first index the scan accepts.
FirstOf(S) == CHOOSE i \in S : \A j \in S : i <= j

\* callback_handle_t handle = next_handle_++;   (the value next_handle_ is left with)
NextHandleAfter_Stuck(h) == h

NextHandleAfter(h) == (h + 1) % HandleModulus

\* callbacks_[i] = std::move(cb);
StoreSlot_Off(cbs, i, cb) == [cbs EXCEPT ![(i + 1) % MaxCallbacks] = cb]

StoreSlot(cbs, i, cb) == [cbs EXCEPT ![i] = cb]

\* callbacks_[i] = nullptr;
ClearSlot_Skip(cbs, i) == cbs

ClearSlot(cbs, i) == [cbs EXCEPT ![i] = Empty]

\* size(): the number of slots holding a callable.
\* size_t capacity() const { return MaxCallbacks; }
capacity == MaxCallbacks

CountCallbacks == Cardinality({i \in Slots : callbacks_[i] # Empty})

\* std::shared_mutex
UnlockShared_Late(rs, t) == rs

\* The end of a std::shared_lock scope.
UnlockShared(rs, t) == rs \ {t}

CanLockExclusive == writer = NoThread /\ readers = {}

\* A shared lock granted whatever the exclusive owner.
CanLockShared_IgnoresWriter == TRUE

\* std::shared_lock can be taken: no thread owns mutex_ exclusively.
CanLockShared == writer = NoThread

\* A thread is between the call and the return of an unregistration of handle.
Unregistering(t, handle) ==
    /\ pc[t] \notin {"idle", "done"}
    /\ \/ loc[t].op = "unregister_all"
       \/ loc[t].op = "unregister" /\ loc[t].h = handle

\* No operator[] call has been made.
NoQuery == [index |-> 0, idx |-> 0, ret |-> NullPtr, called |-> FALSE]

\* keep_lca_cinsns has not been called.
NoLca == [pc |-> "idle", input |-> <<>>]

\* A default-constructed objcontainer_t.
ContainerFresh ==
    /\ objects = <<>>
    /\ query = NoQuery

\* No ctree has been visited and no instruction list exists.
CtreeFresh ==
    /\ parent = <<>>
    /\ bulk_list = <<>>
    /\ new_list = <<>>
    /\ lca = NoLca

\* action_manager_t(owner): no handler owned, both popup lists empty, nothing
\* registered with the host, no call made.
NoAm == [action_handlers |-> <<>>, want_hxe_popup |-> <<>>, want_ida_popup |-> <<>>,
         registered |-> {}, made |-> 0, op |-> "none", amflags |-> 0, ok |-> FALSE,
         act |-> NullPtr, used |-> {}, crashed |-> FALSE]

ActionsFresh == am = NoAm

\* The utilities beside the registries are unused.
LibFresh ==
    /\ ContainerFresh
    /\ CtreeFresh
    /\ ActionsFresh

\* The state after static construction: the registries empty, no scoped
\* object alive, every thread outside any call.
RegistryFresh ==
    /\ callbacks_ = [i \in Slots |-> Empty]
    /\ handles_ = [i \in Slots |-> INVALID_CALLBACK_HANDLE]
    /\ next_handle_ = 1
    /\ writer = NoThread
    /\ readers = {}
    /\ pc = [t \in Threads |-> "idle"]
    /\ loc = [t \in Threads |-> NoLoc]
    /\ regs = <<>>
    /\ slotReg = [i \in Slots |-> NoHandle]
    /\ issued = {}
    /\ reissued = FALSE
    /\ wrapped = FALSE
    /\ nOk = 0
    /\ nFull = 0
    /\ anyUnreg = FALSE
    /\ anyEmpty = FALSE
    /\ frame = [t \in Threads |-> NoFrame]
    /\ objs = [o \in Objs |-> NoObj]
    /\ scoped = <<>>
    /\ other = FreshOther
    /\ otherHist = [T \in OtherTriples |-> FreshRegistry]

\* The state in which a run of the registries starts.
Fresh ==
    /\ RegistryFresh
    /\ LibFresh

Init ==
    /\ Fresh
    /\ left = MaxCalls
    /\ active = Threads

CanCall(t) == pc[t] = "idle" /\ t \in active /\ left > 0

\* --------------------------------------------------------- register_callback
\* Control enters register_callback(cb) on thread t.
EnterRegister(t, cb) ==
    /\ pc' = [pc EXCEPT ![t] = "reg_lock"]
    /\ loc' = [loc EXCEPT ![t] = [NoLoc EXCEPT !.op = "register", !.cb = cb]]
    /\ anyEmpty' = (anyEmpty \/ cb = Empty)
    /\ UNCHANGED <<table, lockVars, regs, slotReg, issued, reissued, wrapped,
                   nOk, nFull, anyUnreg>>

\* The host calls register_callback(cb).
CallRegister(t, cb) ==
    /\ CanCall(t)
    /\ left' = left - 1
    /\ EnterRegister(t, cb)
    /\ UNCHANGED envVars

RegisterLock(t) ==
    /\ pc[t] = "reg_lock"
    /\ CanLockExclusive
    /\ writer' = t
    /\ pc' = [pc EXCEPT ![t] = "reg_scan"]
    /\ UNCHANGED <<table, readers, loc, left, envVars, histVars>>

\* The scan; on a free slot i: handle = next_handle_++; callbacks_[i] = move(cb).
\* With no free slot: return nullopt (the lock is released on return).
RegisterScan(t) ==
    /\ pc[t] = "reg_scan"
    /\ IF FreeSlots # {}
       THEN LET i == FirstOf(FreeSlots) IN
            /\ next_handle_' = NextHandleAfter(next_handle_)
            /\ wrapped' = (wrapped \/ NextHandleAfter(next_handle_) = 0)
            /\ callbacks_' = StoreSlot(callbacks_, i, loc[t].cb)
            /\ slotReg' = [slotReg EXCEPT ![i] = next_handle_]
            /\ regs' = [k \in DOMAIN regs |->
                          IF k[2] = i THEN [regs[k] EXCEPT !.reused = TRUE] ELSE regs[k]]
            /\ loc' = [loc EXCEPT ![t].h = next_handle_, ![t].idx = i]
            /\ pc' = [pc EXCEPT ![t] = "reg_handle"]
            /\ UNCHANGED <<handles_, writer, nFull>>
       ELSE /\ loc' = [loc EXCEPT ![t].ok = FALSE]
            /\ pc' = [pc EXCEPT ![t] = "done"]
            /\ writer' = NoThread
            /\ nFull' = nFull + 1
            /\ UNCHANGED <<callbacks_, handles_, next_handle_, slotReg, regs, wrapped>>
    /\ UNCHANGED <<readers, left, envVars, issued, reissued, nOk, anyUnreg, anyEmpty>>

\* handles_[i] = handle; return make_pair(handle, get_wrapper_for_index(i));
RegisterStoreHandle(t) ==
    /\ pc[t] = "reg_handle"
    /\ LET i == loc[t].idx
           handle == loc[t].h
       IN /\ handles_' = [handles_ EXCEPT ![i] = handle]
          /\ loc' = [loc EXCEPT ![t].ok = TRUE, ![t].val = handle,
                                ![t].ptr = get_wrapper_for_index(i)]
          /\ regs' = [k \in DOMAIN regs \cup {<<handle, i>>} |->
                        IF k = <<handle, i>>
                        THEN [st |-> "live", cb |-> loc[t].cb,
                              touched |-> \E u \in Threads \ {t} : Unregistering(u, handle),
                              quiet |-> TRUE, reused |-> FALSE]
                        ELSE regs[k]]
          /\ issued' = issued \cup {handle}
          /\ reissued' = (reissued \/ handle \in issued)
    /\ nOk' = nOk + 1
    /\ writer' = NoThread
    /\ pc' = [pc EXCEPT ![t] = "done"]
    /\ UNCHANGED <<callbacks_, next_handle_, readers, left, envVars, slotReg, wrapped,
                   nFull, anyUnreg, anyEmpty>>

\* ------------------------------------------------------- unregister_callback
\* unregister_callback without its first test: every call goes on to the lock.
AfterSentinelTest_AlwaysLocks(handle) == "unreg_lock"

\* if (handle == INVALID_CALLBACK_HANDLE) return false;   (before any locking)
\* Where control goes from the test.
AfterSentinelTest(handle) ==
    IF handle = INVALID_CALLBACK_HANDLE THEN "done" ELSE "unreg_lock"

\* Control enters unregister_callback(handle) on thread t.
EnterUnregister(t, handle) ==
    /\ anyUnreg' = TRUE
    /\ loc' = [loc EXCEPT ![t] = [NoLoc EXCEPT !.op = "unregister", !.h = handle]]
    /\ pc' = [pc EXCEPT ![t] = AfterSentinelTest(handle)]
    /\ regs' = [k \in DOMAIN regs |->
                  [regs[k] EXCEPT !.quiet = FALSE, !.touched = (@ \/ k[1] = handle)]]
    /\ UNCHANGED <<table, lockVars, slotReg, issued, reissued, wrapped,
                   nOk, nFull, anyEmpty>>

\* The host calls unregister_callback(handle).
CallUnregister(t, handle) ==
    /\ CanCall(t)
    /\ left' = left - 1
    /\ EnterUnregister(t, handle)
    /\ UNCHANGED envVars

UnregisterLock(t) ==
    /\ pc[t] = "unreg_lock"
    /\ CanLockExclusive
    /\ writer' = t
    /\ pc' = [pc EXCEPT ![t] = "unreg_scan"]
    /\ UNCHANGED <<table, readers, loc, left, envVars, histVars>>

\* The scan; on the first slot i with handles_[i] == handle && callbacks_[i]:
\* callbacks_[i] = nullptr.  With no such slot: return false.
UnregisterScan(t) ==
    /\ pc[t] = "unreg_scan"
    /\ IF MatchingSlots(loc[t].h) # {}
       THEN LET i == FirstOf(MatchingSlots(loc[t].h)) IN
            /\ callbacks_' = ClearSlot(callbacks_, i)
            /\ slotReg' = [slotReg EXCEPT ![i] = NoHandle]
            /\ loc' = [loc EXCEPT ![t].idx = i]
            /\ pc' = [pc EXCEPT ![t] = "unreg_handle"]
            /\ UNCHANGED writer
       ELSE /\ loc' = [loc EXCEPT ![t].ok = FALSE]
            /\ pc' = [pc EXCEPT ![t] = "done"]
            /\ writer' = NoThread
            /\ UNCHANGED <<callbacks_, slotReg>>
    /\ UNCHANGED <<handles_, next_handle_, readers, left, envVars, regs, issued, reissued,
                   wrapped, nOk, nFull, anyUnreg, anyEmpty>>

\* handles_[i] = INVALID_CALLBACK_HANDLE; return true;
UnregisterClearHandle(t) ==
    /\ pc[t] = "unreg_handle"
    /\ LET i == loc[t].idx
           handle == loc[t].h
       IN /\ handles_' = [handles_ EXCEPT ![i] = INVALID_CALLBACK_HANDLE]
          /\ regs' = [k \in DOMAIN regs |->
                        IF regs[k].st = "live" /\ k[1] = handle
                        THEN [regs[k] EXCEPT !.st = IF k[2] = i THEN "cleared" ELSE "removed"]
                        ELSE regs[k]]
    /\ loc' = [loc EXCEPT ![t].ok = TRUE]
    /\ writer' = NoThread
    /\ pc' = [pc EXCEPT ![t] = "done"]
    /\ UNCHANGED <<callbacks_, next_handle_, readers, left, envVars, slotReg, issued,
                   reissued, wrapped, nOk, nFull, anyUnreg, anyEmpty>>

\* ------------------------------------------------------------ unregister_all
EnterUnregisterAll(t) ==
    /\ anyUnreg' = TRUE
    /\ loc' = [loc EXCEPT ![t] = [NoLoc EXCEPT !.op = "unregister_all"]]
    /\ pc' = [pc EXCEPT ![t] = "all_lock"]
    /\ regs' = [k \in DOMAIN regs |-> [regs[k] EXCEPT !.quiet = FALSE, !.touched = TRUE]]
    /\ UNCHANGED <<table, lockVars, slotReg, issued, reissued, wrapped,
                   nOk, nFull, anyEmpty>>

\* The host calls unregister_all().
CallUnregisterAll(t) ==
    /\ CanCall(t)
    /\ left' = left - 1
    /\ EnterUnregisterAll(t)
    /\ UNCHANGED envVars

UnregisterAllLock(t) ==
    /\ pc[t] = "all_lock"
    /\ CanLockExclusive
    /\ writer' = t
    /\ pc' = [pc EXCEPT ![t] = "all_clear"]
    /\ UNCHANGED <<table, readers, loc, left, envVars, histVars>>

\* unregister_all's loop, were it to leave the handles where they are.
ClearedHandles_Kept == handles_

\* handles_[i] = INVALID_CALLBACK_HANDLE, for every i.
ClearedHandles == [i \in Slots |-> INVALID_CALLBACK_HANDLE]

\* for every i: callbacks_[i] = nullptr; handles_[i] = INVALID_CALLBACK_HANDLE;
UnregisterAllClear(t) ==
    /\ pc[t] = "all_clear"
    /\ callbacks_' = [i \in Slots |-> Empty]
    /\ handles_' = ClearedHandles
    /\ slotReg' = [i \in Slots |-> NoHandle]
    /\ regs' = [k \in DOMAIN regs |->
                  IF regs[k].st = "live" THEN [regs[k] EXCEPT !.st = "wiped"] ELSE regs[k]]
    /\ writer' = NoThread
    /\ pc' = [pc EXCEPT ![t] = "done"]
    /\ UNCHANGED <<next_handle_, readers, loc, left, envVars, issued, reissued, wrapped,
                   nOk, nFull, anyUnreg, anyEmpty>>

\* ---------------------------------------------------------------------- size
EnterSize(t) ==
    /\ loc' = [loc EXCEPT ![t] = [NoLoc EXCEPT !.op = "size"]]
    /\ pc' = [pc EXCEPT ![t] = "size_lock"]
    /\ UNCHANGED <<table, lockVars, histVars>>

\* The host calls size().
CallSize(t) ==
    /\ CanCall(t)
    /\ left' = left - 1
    /\ EnterSize(t)
    /\ UNCHANGED envVars

\* size() that counts without taking the shared lock.
SizeLock_Unlocked(t) ==
    /\ pc[t] = "size_lock"
    /\ pc' = [pc EXCEPT ![t] = "size_count"]
    /\ UNCHANGED <<table, lockVars, loc, left, envVars, histVars>>

\* std::shared_lock lock(mutex_);
SizeLock(t) ==
    /\ pc[t] = "size_lock"
    /\ CanLockShared
    /\ readers' = readers \cup {t}
    /\ pc' = [pc EXCEPT ![t] = "size_count"]
    /\ UNCHANGED <<table, writer, loc, left, envVars, histVars>>

\* if (cb) ++count;
Counted(cb) == IF cb # Empty THEN 1 ELSE 0

\* for (const auto& cb : callbacks_) if (cb) ++count;   one element per step;
\* after the last element: return count (the shared lock is released).
SizeCount(t) ==
    /\ pc[t] = "size_count"
    /\ LET i == loc[t].idx
           count == loc[t].val + Counted(callbacks_[i])
       IN IF i + 1 < MaxCallbacks
          THEN /\ loc' = [loc EXCEPT ![t].idx = i + 1, ![t].val = count]
               /\ UNCHANGED <<readers, pc>>
          ELSE /\ loc' = [loc EXCEPT ![t].val = count]
               /\ readers' = UnlockShared(readers, t)
               /\ pc' = [pc EXCEPT ![t] = "done"]
    /\ UNCHANGED <<table, writer, left, envVars, histVars>>

\* -------------------------------------------------- wrapper_function<Index>
\* Control enters the trampoline ptr with one argument.
EnterWrapper(t, ptr, a) ==
    /\ loc' = [loc EXCEPT ![t] =
                 [NoLoc EXCEPT !.op = "invoke", !.idx = ptr, !.arg = a,
                    !.known = {h \in Handles : <<h, ptr>> \in DOMAIN regs},
                    !.dead0 = {h \in Handles : Reg(<<h, ptr>>).st \in {"removed", "cleared"}}]]
    /\ pc' = [pc EXCEPT ![t] = "wr_lock"]
    /\ UNCHANGED <<table, lockVars, histVars>>

\* The host calls the trampoline pointer ptr with one argument.
CallWrapper(t, ptr, a) ==
    /\ CanCall(t)
    /\ left' = left - 1
    /\ EnterWrapper(t, ptr, a)
    /\ UNCHANGED envVars

WrapperLock(t) ==
    /\ pc[t] = "wr_lock"
    /\ CanLockShared
    /\ readers' = readers \cup {t}
    /\ pc' = [pc EXCEPT ![t] = "wr_copy"]
    /\ UNCHANGED <<table, writer, loc, left, envVars, histVars>>

\* The copy, were the shared_lock declared in the function's scope instead
\* of the inner block: the lock is still held when the closure is called.
WrapperCopy_LockInFunctionScope(t) ==
    /\ pc[t] = "wr_copy"
    /\ loc' = [loc EXCEPT ![t].copy = callbacks_[loc[t].idx],
                          ![t].copyReg = slotReg[loc[t].idx]]
    /\ pc' = [pc EXCEPT ![t] = "wr_call"]
    /\ UNCHANGED <<table, lockVars, left, envVars, histVars>>

\* if (Index < MaxCallbacks) callback_copy = self.callbacks_[Index];  then unlock
WrapperCopy(t) ==
    /\ pc[t] = "wr_copy"
    /\ LET Index == loc[t].idx IN
       loc' = [loc EXCEPT
                 ![t].copy = IF Index < MaxCallbacks THEN callbacks_[Index] ELSE Empty,
                 ![t].copyReg = IF Index < MaxCallbacks THEN slotReg[Index] ELSE NoHandle,
                 ![t].sawCleared = \E h \in Handles :
                                      /\ Reg(<<h, Index>>).st = "cleared"
                                      /\ ~Reg(<<h, Index>>).reused]
    /\ readers' = UnlockShared(readers, t)
    /\ pc' = [pc EXCEPT ![t] = "wr_call"]
    /\ UNCHANGED <<table, writer, left, envVars, histVars>>

\* if (callback_copy) return callback_copy(args...);  return return_t{};
WrapperInvoke(t) ==
    /\ pc[t] = "wr_call"
    /\ loc[t].copy \notin ReClosures
    /\ loc' = [loc EXCEPT
                 ![t].ok = (loc[t].copy # Empty),
                 ![t].val = InvokeCopy(loc[t].copy, loc[t].arg)]
    /\ pc' = [pc EXCEPT ![t] = "done"]
    /\ UNCHANGED <<table, lockVars, left, envVars, histVars>>

\* ------------------------------------------------------- re-entrant closures
\* callback_copy(args...) where the closure's body calls a method of the
\* registry: control enters that method with the trampoline's locals saved.
InClosure(t) ==
    [frame EXCEPT ![t] = [NoFrame EXCEPT !.sop = "closure", !.saved = loc[t]]]

ClosureCall(t) ==
    /\ pc[t] = "wr_call"
    /\ loc[t].copy \in ReClosures
    /\ frame[t].sop = "none"
    /\ \/ loc[t].copy = "re_unregister" /\ EnterUnregister(t, loc[t].copyReg)
       \/ loc[t].copy = "re_register" /\ EnterRegister(t, "f1")
       \/ loc[t].copy = "re_unregister_all" /\ EnterUnregisterAll(t)
       \/ loc[t].copy = "re_size" /\ EnterSize(t)
    /\ frame' = InClosure(t)
    /\ UNCHANGED <<left, active, objs, scoped, other, otherHist, libVars>>

\* What the closure returns: the count for size(), else 1 for true / a pair.
ClosureResult(l) ==
    IF l.op = "size" THEN l.val ELSE IF l.ok THEN 1 ELSE 0

\* The method the closure called has returned; the closure returns, and the
\* trampoline returns the closure's result.
ClosureReturn(t) ==
    /\ pc[t] = "done"
    /\ frame[t].sop = "closure"
    /\ loc' = [loc EXCEPT ![t] = [frame[t].saved EXCEPT !.ok = TRUE,
                                                       !.val = ClosureResult(loc[t])]]
    /\ frame' = [frame EXCEPT ![t] = NoFrame]
    /\ UNCHANGED <<table, lockVars, pc, left, active, objs, scoped, other, otherHist,
                   histVars, libVars>>

\* ----------------------------------------------------------- scoped_callback
\* History of the registrations made by constructors, by returned handle:
\* last is the last object that owned it, calls counts the
\* unregister_callback(handle) calls made by scoped_callback objects.
ScopedRegistered(h, o) ==
    [k \in DOMAIN scoped \cup {h} |->
        IF k = h THEN [last |-> o, released |-> FALSE, calls |-> 0, ended |-> FALSE]
        ELSE scoped[k]]

ScopedCalled(h) ==
    [k \in DOMAIN scoped |-> IF k = h THEN [scoped[k] EXCEPT !.calls = @ + 1] ELSE scoped[k]]

\* Object src (valid) hands what it holds to object dst.
ScopedMoved(src, dst) ==
    [k \in DOMAIN scoped |->
        IF is_valid(objs[src]) /\ k = objs[src].handle_ /\ scoped[k].last = src
        THEN [scoped[k] EXCEPT !.last = dst] ELSE scoped[k]]

ScopedReleased(o) ==
    [k \in DOMAIN scoped |->
        IF is_valid(objs[o]) /\ k = objs[o].handle_ /\ scoped[k].last = o
        THEN [scoped[k] EXCEPT !.released = TRUE] ELSE scoped[k]]

\* Object o is destroyed: the registrations it was the last to own have no owner left.
ScopedEnded(sc, o) ==
    [k \in DOMAIN sc |->
        IF sc[k].last = o THEN [sc[k] EXCEPT !.ended = TRUE, !.last = NoObject] ELSE sc[k]]

\* The registration that object obj holds is in the table: its slot holds a
\* closure under its handle.
HoldsLive(obj) ==
    /\ is_valid(obj)
    /\ obj.callback_ \in Slots
    /\ callbacks_[obj.callback_] # Empty
    /\ handles_[obj.callback_] = obj.handle_

\* A scoped_callback method returns on thread t.
ScopedDone(t, opname, o, src, result) ==
    /\ pc' = [pc EXCEPT ![t] = "done"]
    /\ loc' = [loc EXCEPT ![t] = [NoLoc EXCEPT !.op = opname, !.idx = o, !.src = src,
                                               !.ptr = result]]
    /\ frame' = [frame EXCEPT ![t] = NoFrame]

\* The members after the constructor's initialiser list, were it to leave
\* callback_ out (here: the value of an earlier object in that storage).
MemberInit_NoPointer == [InvalidObj EXCEPT !.callback_ = 0]

\* : handle_(INVALID_CALLBACK_HANDLE), callback_(nullptr)
MemberInit == InvalidObj

\* explicit scoped_callback(Lambda&& cb): members initialised invalid, then
\* registry_t::instance().register_callback(cb).
ScopedConstruct(t, o, cb) ==
    /\ CanCall(t)
    /\ ~objs[o].alive
    /\ left' = left - 1
    /\ objs' = [objs EXCEPT ![o] = MemberInit]
    /\ frame' = [frame EXCEPT ![t] = [NoFrame EXCEPT !.sop = "construct", !.obj = o,
                                                     !.full = (CountCallbacks = MaxCallbacks)]]
    /\ EnterRegister(t, cb)
    /\ UNCHANGED <<active, scoped, other, otherHist, libVars>>

\* if (result) { handle_ = result->first; callback_ = result->second; }
ScopedConstructEnd(t) ==
    /\ pc[t] = "done"
    /\ frame[t].sop = "construct"
    /\ LET o == frame[t].obj IN
       IF loc[t].ok
       THEN /\ objs' = [objs EXCEPT ![o].handle_ = loc[t].val, ![o].callback_ = loc[t].ptr]
            /\ scoped' = ScopedRegistered(loc[t].val, o)
            /\ ScopedDone(t, "scoped_construct", o, NoObject, loc[t].ptr)
       ELSE /\ UNCHANGED <<objs, scoped>>
            /\ ScopedDone(t, "scoped_construct", o, NoObject, NullPtr)
    /\ UNCHANGED <<table, lockVars, histVars, left, active, other, otherHist, libVars>>

\* reset(), also run by the destructor and by move assignment:
\* if (handle_ != INVALID_CALLBACK_HANDLE) registry_t::instance().unregister_callback(handle_)
\* Control enters unregister_callback, with sop the method that runs reset().
ResetEnter(t, sop, o, src) ==
    /\ objs[o].handle_ # INVALID_CALLBACK_HANDLE
    /\ EnterUnregister(t, objs[o].handle_)
    /\ frame' = [frame EXCEPT ![t] =
                   [NoFrame EXCEPT !.sop = sop, !.obj = o, !.src = src,
                                   !.srcLive = (src # NoObject /\ HoldsLive(objs[src]))]]
    /\ scoped' = ScopedCalled(objs[o].handle_)
    /\ UNCHANGED <<objs, active, other, otherHist, libVars>>

\* reset() finds handle_ == INVALID_CALLBACK_HANDLE: no call, no assignment.
ResetSkip(t, o) ==
    /\ objs[o].handle_ = INVALID_CALLBACK_HANDLE
    /\ UNCHANGED <<table, lockVars, histVars, active, other, otherHist, libVars>>

\* The host calls o.reset().
ScopedReset(t, o) ==
    /\ CanCall(t)
    /\ objs[o].alive
    /\ left' = left - 1
    /\ \/ ResetEnter(t, "reset", o, NoObject)
       \/ /\ ResetSkip(t, o)
          /\ ScopedDone(t, "scoped_reset", o, NoObject, NullPtr)
          /\ UNCHANGED <<objs, scoped>>

\* handle_ = INVALID_CALLBACK_HANDLE; callback_ = nullptr;   (end of reset())
ScopedResetEnd(t) ==
    /\ pc[t] = "done"
    /\ frame[t].sop = "reset"
    /\ objs' = [objs EXCEPT ![frame[t].obj] = InvalidObj]
    /\ ScopedDone(t, "scoped_reset", frame[t].obj, NoObject, NullPtr)
    /\ UNCHANGED <<table, lockVars, histVars, left, active, scoped, other, otherHist, libVars>>

\* ~scoped_callback() { reset(); }   The object o goes out of scope.
ScopedDestroy(t, o) ==
    /\ CanCall(t)
    /\ objs[o].alive
    /\ left' = left - 1
    /\ \/ ResetEnter(t, "destroy", o, NoObject)
       \/ /\ ResetSkip(t, o)
          /\ objs' = [objs EXCEPT ![o] = NoObj]
          /\ scoped' = ScopedEnded(scoped, o)
          /\ ScopedDone(t, "scoped_destroy", o, NoObject, NullPtr)

ScopedDestroyEnd(t) ==
    /\ pc[t] = "done"
    /\ frame[t].sop = "destroy"
    /\ objs' = [objs EXCEPT ![frame[t].obj] = NoObj]
    /\ scoped' = ScopedEnded(scoped, frame[t].obj)
    /\ ScopedDone(t, "scoped_destroy", frame[t].obj, NoObject, NullPtr)
    /\ UNCHANGED <<table, lockVars, histVars, left, active, other, otherHist, libVars>>

\* handle_ = std::exchange(other.handle_, INVALID_CALLBACK_HANDLE);
\* callback_ = std::exchange(other.callback_, nullptr);
Exchange(os, src, dst) ==
    [os EXCEPT ![dst] = [alive |-> TRUE, handle_ |-> os[src].handle_,
                         callback_ |-> os[src].callback_],
               ![src] = InvalidObj]

\* scoped_callback(scoped_callback&& other): the object dst is constructed from src.
ScopedMoveConstruct(t, src, dst) ==
    /\ CanCall(t)
    /\ objs[src].alive /\ ~objs[dst].alive
    /\ left' = left - 1
    /\ objs' = Exchange(objs, src, dst)
    /\ scoped' = ScopedMoved(src, dst)
    /\ ScopedDone(t, "scoped_move", dst, src, objs[src].callback_)
    /\ UNCHANGED <<table, lockVars, histVars, active, other, otherHist, libVars>>

\* operator=(scoped_callback&& other): if (this != &other) { reset(); exchange }
ScopedMoveAssign(t, src, dst) ==
    /\ CanCall(t)
    /\ objs[src].alive /\ objs[dst].alive
    /\ left' = left - 1
    /\ \/ /\ src = dst
          /\ ScopedDone(t, "scoped_self_assign", dst, src, objs[dst].callback_)
          /\ UNCHANGED <<table, lockVars, histVars, active, objs, scoped, other, otherHist, libVars>>
       \/ /\ src # dst
          /\ ResetEnter(t, "assign", dst, src)
       \/ /\ src # dst
          /\ ResetSkip(t, dst)
          /\ objs' = Exchange(objs, src, dst)
          /\ scoped' = ScopedMoved(src, dst)
          /\ ScopedDone(t, "scoped_move", dst, src, objs[src].callback_)

\* After reset() inside operator=: the two exchanges.
ScopedMoveAssignEnd(t) ==
    /\ pc[t] = "done"
    /\ frame[t].sop = "assign"
    /\ objs' = Exchange(objs, frame[t].src, frame[t].obj)
    /\ scoped' = ScopedMoved(frame[t].src, frame[t].obj)
    /\ ScopedDone(t, "scoped_move", frame[t].obj, frame[t].src,
                  objs[frame[t].src].callback_)
    /\ UNCHANGED <<table, lockVars, histVars, left, active, other, otherHist, libVars>>

\* The members after release(), were it to clear callback_ only.
Released_KeepsHandle(obj) == [obj EXCEPT !.callback_ = NullPtr]

\* The members after release(): handle_ = INVALID_CALLBACK_HANDLE and
\* callback_ = nullptr (by std::exchange).
Released(obj) == [obj EXCEPT !.handle_ = INVALID_CALLBACK_HANDLE, !.callback_ = NullPtr]

\* release(): handle_ = INVALID_CALLBACK_HANDLE; return std::exchange(callback_, nullptr);
ScopedRelease(t, o) ==
    /\ CanCall(t)
    /\ objs[o].alive
    /\ left' = left - 1
    /\ objs' = [objs EXCEPT ![o] = Released(objs[o])]
    /\ scoped' = ScopedReleased(o)
    /\ ScopedDone(t, "scoped_release", o, NoObject, objs[o].callback_)
    /\ UNCHANGED <<table, lockVars, histVars, active, other, otherHist, libVars>>

\* ------------------------------------------- registries of other triples
\* The methods of callback_registry applied to a registry value r; each runs
\* under that registry's own mutex_, which no other registry shares.
RegistryRegister(r, cb) ==
    LET free == {i \in OtherSlots : r.callbacks_[i] = Empty} IN
    IF free = {} THEN r
    ELSE [callbacks_ |-> StoreSlot(r.callbacks_, FirstOf(free), cb),
          handles_ |-> [r.handles_ EXCEPT ![FirstOf(free)] = r.next_handle_],
          next_handle_ |-> NextHandleAfter(r.next_handle_)]

RegistryUnregister(r, handle) ==
    LET match == {i \in OtherSlots : r.handles_[i] = handle /\ r.callbacks_[i] # Empty} IN
    IF handle = INVALID_CALLBACK_HANDLE \/ match = {} THEN r
    ELSE [r EXCEPT !.callbacks_ = ClearSlot(r.callbacks_, FirstOf(match)),
                   !.handles_[FirstOf(match)] = INVALID_CALLBACK_HANDLE]

RegistryUnregisterAll(r) ==
    [r EXCEPT !.callbacks_ = [i \in OtherSlots |-> Empty],
              !.handles_ = [i \in OtherSlots |-> INVALID_CALLBACK_HANDLE]]

\* A method of the registry of triple T changes instance() of T; the history
\* applies the same method to the table kept for T.
OtherUpdate(t, T, opname, new, hist) ==
    /\ CanCall(t)
    /\ left' = left - 1
    /\ other' = [other EXCEPT ![instance(T)] = new]
    /\ otherHist' = [otherHist EXCEPT ![T] = hist]
    /\ pc' = [pc EXCEPT ![t] = "done"]
    /\ loc' = [loc EXCEPT ![t] = [NoLoc EXCEPT !.op = opname]]
    /\ UNCHANGED <<table, lockVars, histVars, active, frame, objs, scoped, libVars>>

OtherRegister(t, T, cb) ==
    OtherUpdate(t, T, "other_register",
                RegistryRegister(other[instance(T)], cb),
                RegistryRegister(otherHist[T], cb))

OtherUnregister(t, T, handle) ==
    OtherUpdate(t, T, "other_unregister",
                RegistryUnregister(other[instance(T)], handle),
                RegistryUnregister(otherHist[T], handle))

OtherUnregisterAll(t, T) ==
    OtherUpdate(t, T, "other_unregister_all",
                RegistryUnregisterAll(other[instance(T)]),
                RegistryUnregisterAll(otherHist[T]))

\* wrapper_function<Index> of the registry of triple T: copies from its own
\* instance() and calls the copy.  (cb records what the history holds.)
OtherWrapper(t, T, ptr, a) ==
    /\ CanCall(t)
    /\ left' = left - 1
    /\ pc' = [pc EXCEPT ![t] = "done"]
    /\ LET copy == other[instance(T)].callbacks_[ptr] IN
       loc' = [loc EXCEPT ![t] =
                 [NoLoc EXCEPT !.op = "other_invoke", !.idx = ptr, !.arg = a,
                               !.copy = copy, !.cb = otherHist[T].callbacks_[ptr],
                               !.ok = (copy # Empty), !.val = InvokeCopy(copy, a)]]
    /\ UNCHANGED <<table, lockVars, histVars, envVars>>

\* ------------------------------------------------------------ objcontainer_t
\* Constructor arguments of the stored objects.
ObjValues == {"First", "Second"}

IntMin == -(2 ^ (IntBits - 1))

IntMax == 2 ^ (IntBits - 1) - 1

\* The values of int.
Ints == IntMin .. IntMax

SizeModulus == 2 ^ SizeBits

\* operator[] did not return: the negation trapped.
Trapped == -2

\* size_t(x) for an int x: the value modulo 2^SizeBits.
ToSizeT(x) == x % SizeModulus

\* this->size()
Size == Len(objects)

\* The outcomes of -index in int arithmetic.  -INT_MIN overflows, which is
\* undefined: the build may wrap to INT_MIN, may keep the positive value in a
\* wider register, or may trap.
Negate(index) ==
    IF index = IntMin
    THEN {[trap |-> FALSE, v |-> IntMin], [trap |-> FALSE, v |-> -IntMin],
          [trap |-> TRUE, v |-> 0]}
    ELSE {[trap |-> FALSE, v |-> -index]}

\* if (index < 0) idx = this->size() - size_t(-index); else idx = size_t(index);
IndexOf(index, neg) ==
    IF index < 0 THEN (Size - ToSizeT(neg)) % SizeModulus ELSE ToSizeT(index)

\* if (idx >= this->size()) return nullptr; else return base_t::operator[](idx).get();
ElementAt(idx) == IF idx >= Size THEN NullPtr ELSE objects[idx + 1].id

\* create(args...): push_back(std::make_unique<T>(args...)); return back().get();
\* The new object's address is its id.
Create(v) ==
    /\ Size < MaxObjects
    /\ objects' = Append(objects, [id |-> Size + 1, val |-> v])
    /\ query' = NoQuery
    /\ UNCHANGED <<table, lockVars, histVars, pc, loc, left, active, frame, objs,
                   scoped, other, otherHist, parent, bulk_list, new_list, lca, am>>

\* operator[](int index)
Subscript(index) ==
    /\ \E neg \in (IF index < 0 THEN Negate(index) ELSE {[trap |-> FALSE, v |-> 0]}) :
          query' = IF neg.trap
                   THEN [index |-> index, idx |-> 0, ret |-> Trapped, called |-> TRUE]
                   ELSE [index |-> index, idx |-> IndexOf(index, neg.v),
                         ret |-> ElementAt(IndexOf(index, neg.v)), called |-> TRUE]
    /\ UNCHANGED <<table, lockVars, histVars, pc, loc, left, active, frame, objs,
                   scoped, other, otherHist, objects, parent, bulk_list, new_list, lca, am>>

ContainerNext ==
    \/ \E v \in ObjValues : Create(v)
    \/ \E index \in Ints : Subscript(index)

\* An empty container; the registries are not used.
ContainerInit ==
    /\ RegistryFresh
    /\ LibFresh
    /\ left = 0
    /\ active = {}

ContainerSpec == ContainerInit /\ [][ContainerNext]_vars

\* ----------------------------------------------------------- keep_lca_cinsns
\* The items (instructions) of the function's ctree; nullptr is NullItem.
Items == 1 .. NumItems

NullItem == 0

\* The parent maps that ctreeparent_visitor_t builds: item 1 is the function
\* body, every other item has its parent among the items visited before it.
ParentMaps ==
    {p \in [Items -> {NullItem} \cup Items] :
        /\ p[1] = NullItem
        /\ \A k \in Items \ {1} : p[k] \in 1 .. (k - 1)}

\* The instruction lists of length n.
ListsOfLen(n) == [1 .. n -> Items]

\* The instruction lists a caller may pass.
InsnLists == UNION {ListsOfLen(n) : n \in 0 .. MaxListLen}

\* parent_of(item): return parent[item];
parent_of(item) == IF item \in DOMAIN parent THEN parent[item] ELSE NullItem

\* is_ancestor_of(parent_item, item):
\* while (item != nullptr) { item = parent_of(item); if (item == parent_item) return true; }
\* return false;
RECURSIVE is_ancestor_of(_, _)
is_ancestor_of(parent_item, item) ==
    IF item = NullItem THEN FALSE
    ELSE IF parent_of(item) = parent_item THEN TRUE
    ELSE is_ancestor_of(parent_item, parent_of(item))

\* are_ancestor_of(h, inst, item): some element of inst is an ancestor of item.
are_ancestor_of(inst, item) ==
    \E k \in 1 .. Len(inst) : is_ancestor_of(inst[k], item)

\* bulk_list without its last element (pop_back).
PopBack(list) == SubSeq(list, 1, Len(list) - 1)

\* One iteration of while (!bulk_list.empty()).
KeepLcaIterate ==
    /\ lca.pc = "loop"
    /\ bulk_list # <<>>
    /\ LET item == bulk_list[Len(bulk_list)]
           rest == PopBack(bulk_list)
       IN /\ bulk_list' = rest
          /\ new_list' = IF ~are_ancestor_of(rest, item) /\ ~are_ancestor_of(new_list, item)
                         THEN Append(new_list, item)
                         ELSE new_list
    /\ UNCHANGED <<table, lockVars, histVars, pc, loc, left, active, frame, objs,
                   scoped, other, otherHist, objects, query, parent, lca, am>>

\* The loop ends: new_list.swap(bulk_list); and the function returns.
KeepLcaSwap ==
    /\ lca.pc = "loop"
    /\ bulk_list = <<>>
    /\ bulk_list' = new_list
    /\ new_list' = bulk_list
    /\ lca' = [lca EXCEPT !.pc = "done"]
    /\ UNCHANGED <<table, lockVars, histVars, pc, loc, left, active, frame, objs,
                   scoped, other, otherHist, objects, query, parent, am>>

LcaNext ==
    \/ KeepLcaIterate
    \/ KeepLcaSwap

\* keep_lca_cinsns is entered with a visited ctree and an instruction list.
LcaInit ==
    /\ RegistryFresh
    /\ ContainerFresh
    /\ ActionsFresh
    /\ left = 0
    /\ active = {}
    /\ parent \in ParentMaps
    /\ bulk_list \in InsnLists
    /\ new_list = <<>>
    /\ lca = [pc |-> "loop", input |-> bulk_list]

LcaSpec == LcaInit /\ [][LcaNext]_vars

\* --------------------------------------------------------- action_manager_t
\* #define AMAHF_HXE_POPUP 0x01 / #define AMAHF_IDA_POPUP 0x04
AMAHF_HXE_POPUP == 1

AMAHF_IDA_POPUP == 4

\* The amflags values add_action is called with.
ActionFlags == {0, AMAHF_HXE_POPUP, 2, AMAHF_IDA_POPUP, AMAHF_HXE_POPUP + AMAHF_IDA_POPUP}

\* amflags & flag, for a flag of one bit.
HasFlag(amflags, flag) == (amflags \div flag) % 2 = 1

\* The elements of a vector.
Elements(list) == {list[k] : k \in DOMAIN list}

\* action_handlers[-1] by objcontainer_t::operator[]:
\* idx = size() - size_t(-index); nullptr if idx >= size().
LastHandler(hs) ==
    LET idx == (Len(hs) - ToSizeT(1)) % SizeModulus
    IN IF idx >= Len(hs) THEN NullPtr ELSE hs[idx + 1]

\* A popup list after "if (amflags & flag) list.push_back(act)", were the test left out.
PushIf_Always(list, amflags, flag, act) == Append(list, act)

\* if (amflags & flag) list.push_back(act);
PushIf(list, amflags, flag, act) ==
    IF HasFlag(amflags, flag) THEN Append(list, act) ELSE list

\* add_action(amflags, name, ...): action_handlers.create(...) makes the handler
\* (its address is the number of the allocation), the host's register_action
\* answers ok; then the popup lists are extended or the handler is popped.
AddAction(amflags, ok) ==
    /\ am.made < MaxHandlers
    /\ LET h == am.made + 1
           created == Append(am.action_handlers, h)
           act == LastHandler(created)
       IN am' = IF ok
                THEN [am EXCEPT !.action_handlers = created,
                                !.want_hxe_popup = PushIf(@, amflags, AMAHF_HXE_POPUP, act),
                                !.want_ida_popup = PushIf(@, amflags, AMAHF_IDA_POPUP, act),
                                !.registered = @ \cup {h},
                                !.made = h, !.op = "add_action", !.amflags = amflags,
                                !.ok = TRUE, !.act = act, !.used = {}, !.crashed = FALSE]
                ELSE [am EXCEPT !.action_handlers = PopBack(created),
                                !.made = h, !.op = "add_action", !.amflags = amflags,
                                !.ok = FALSE, !.act = NullPtr, !.used = {},
                                !.crashed = FALSE]
    /\ UNCHANGED <<table, lockVars, histVars, pc, loc, left, active, frame, objs,
                   scoped, other, otherHist, objects, query, parent, bulk_list,
                   new_list, lca>>

\* remove_actions(): unregister_action for every owned handler, then
\* action_handlers.clear(), which destroys the handlers.
RemoveActions ==
    /\ am' = [am EXCEPT !.action_handlers = <<>>,
                        !.registered = @ \ Elements(am.action_handlers),
                        !.op = "remove_actions", !.amflags = 0, !.ok = FALSE,
                        !.act = NullPtr, !.used = {}, !.crashed = FALSE]
    /\ UNCHANGED <<table, lockVars, histVars, pc, loc, left, active, frame, objs,
                   scoped, other, otherHist, objects, query, parent, bulk_list,
                   new_list, lca>>

\* maybe_attach_to_popup(via_hxe, ...): act->get_state(widget) is called on
\* every pointer of the chosen list.  Calling it on a destroyed handler is
\* undefined: the call may crash or go on with what the freed memory holds.
MaybeAttachToPopup(via_hxe) ==
    /\ LET lst == IF via_hxe THEN am.want_hxe_popup ELSE am.want_ida_popup
           destroyed == Elements(lst) \ Elements(am.action_handlers)
       IN \E crash \in (IF destroyed # {} THEN BOOLEAN ELSE {FALSE}) :
             am' = [am EXCEPT !.op = IF via_hxe THEN "hxe_popup" ELSE "ida_popup",
                              !.amflags = 0, !.ok = FALSE, !.act = NullPtr,
                              !.used = Elements(lst), !.crashed = crash]
    /\ UNCHANGED <<table, lockVars, histVars, pc, loc, left, active, frame, objs,
                   scoped, other, otherHist, objects, query, parent, bulk_list,
                   new_list, lca>>

ActionNext ==
    \/ \E amflags \in ActionFlags, ok \in BOOLEAN : AddAction(amflags, ok)
    \/ RemoveActions
    \/ \E via_hxe \in BOOLEAN : MaybeAttachToPopup(via_hxe)

\* A new action_manager_t; the registries and the other utilities are not used.
ActionInit ==
    /\ RegistryFresh
    /\ LibFresh
    /\ left = 0
    /\ active = {}

ActionSpec == ActionInit /\ [][ActionNext]_vars

\* -------------------------------------------------------------------- return
Return(t) ==
    /\ pc[t] = "done"
    /\ frame[t].sop = "none"
    /\ pc' = [pc EXCEPT ![t] = "idle"]
    /\ loc' = [loc EXCEPT ![t] = NoLoc]
    /\ UNCHANGED <<table, lockVars, left, envVars, histVars>>

Next ==
    \E t \in Threads :
        \/ \E cb \in Lambdas : CallRegister(t, cb)
        \/ RegisterLock(t)
        \/ RegisterScan(t)
        \/ RegisterStoreHandle(t)
        \/ \E handle \in Handles : CallUnregister(t, handle)
        \/ UnregisterLock(t)
        \/ UnregisterScan(t)
        \/ UnregisterClearHandle(t)
        \/ CallUnregisterAll(t)
        \/ UnregisterAllLock(t)
        \/ UnregisterAllClear(t)
        \/ CallSize(t)
        \/ SizeLock(t)
        \/ SizeCount(t)
        \/ \E ptr \in Slots, a \in Args : CallWrapper(t, ptr, a)
        \/ WrapperLock(t)
        \/ WrapperCopy(t)
        \/ WrapperInvoke(t)
        \/ Return(t)

Spec == Init /\ [][Next]_vars

\* A sequential run: one thread issues every call.
SeqInit ==
    /\ Fresh
    /\ left = MaxSeqCalls
    /\ active = {1}

SeqSpec == SeqInit /\ [][Next]_vars

\* Runs in which the threads also use the registries of the other triples.
OtherStep(t) ==
    \E T \in OtherTriples :
        \/ \E cb \in Closures : OtherRegister(t, T, cb)
        \/ \E handle \in Handles : OtherUnregister(t, T, handle)
        \/ OtherUnregisterAll(t, T)
        \/ \E ptr \in OtherSlots, a \in Args : OtherWrapper(t, T, ptr, a)

MultiNext == Next \/ \E t \in Threads : OtherStep(t)

MultiInit ==
    /\ Fresh
    /\ left = MaxMultiCalls
    /\ active = Threads

MultiSpec == MultiInit /\ [][MultiNext]_vars

\* Runs of one thread that owns scoped_callback objects, registers closures
\* directly as well, and calls the trampolines.
ScopedNext ==
    \E t \in Threads :
        \/ \E o \in Objs, cb \in Lambdas : ScopedConstruct(t, o, cb)
        \/ ScopedConstructEnd(t)
        \/ \E o \in Objs : ScopedReset(t, o)
        \/ ScopedResetEnd(t)
        \/ \E o \in Objs : ScopedDestroy(t, o)
        \/ ScopedDestroyEnd(t)
        \/ \E src, dst \in Objs : ScopedMoveConstruct(t, src, dst)
        \/ \E src, dst \in Objs : ScopedMoveAssign(t, src, dst)
        \/ ScopedMoveAssignEnd(t)
        \/ \E o \in Objs : ScopedRelease(t, o)
        \/ \E cb \in Lambdas : CallRegister(t, cb)
        \/ \E ptr \in Slots, a \in Args : CallWrapper(t, ptr, a)
        \/ RegisterLock(t)
        \/ RegisterScan(t)
        \/ RegisterStoreHandle(t)
        \/ UnregisterLock(t)
        \/ UnregisterScan(t)
        \/ UnregisterClearHandle(t)
        \/ WrapperLock(t)
        \/ WrapperCopy(t)
        \/ WrapperInvoke(t)
        \/ Return(t)

ScopedInit ==
    /\ Fresh
    /\ left = MaxScopedCalls
    /\ active = {1}

ScopedSpec == ScopedInit /\ [][ScopedNext]_vars

\* Longer runs of one thread that constructs, moves, resets and destroys
\* scoped_callback objects and registers closures directly.
MoveNext ==
    \E t \in Threads :
        \/ \E o \in Objs, cb \in Lambdas : ScopedConstruct(t, o, cb)
        \/ ScopedConstructEnd(t)
        \/ \E o \in Objs : ScopedReset(t, o)
        \/ ScopedResetEnd(t)
        \/ \E o \in Objs : ScopedDestroy(t, o)
        \/ ScopedDestroyEnd(t)
        \/ \E src, dst \in Objs : ScopedMoveConstruct(t, src, dst)
        \/ \E src, dst \in Objs : ScopedMoveAssign(t, src, dst)
        \/ ScopedMoveAssignEnd(t)
        \/ \E cb \in Lambdas : CallRegister(t, cb)
        \/ RegisterLock(t)
        \/ RegisterScan(t)
        \/ RegisterStoreHandle(t)
        \/ UnregisterLock(t)
        \/ UnregisterScan(t)
        \/ UnregisterClearHandle(t)
        \/ Return(t)

MoveInit ==
    /\ Fresh
    /\ left = MaxMoveCalls
    /\ active = {1}

MoveSpec == MoveInit /\ [][MoveNext]_vars

\* Concurrent runs of registrations, trampoline invocations and
\* unregistrations, long enough for next_handle_ to wrap.
FlightNext ==
    \E t \in Threads :
        \/ \E cb \in {"f1", Empty} : CallRegister(t, cb)
        \/ RegisterLock(t)
        \/ RegisterScan(t)
        \/ RegisterStoreHandle(t)
        \/ \E handle \in Handles : CallUnregister(t, handle)
        \/ UnregisterLock(t)
        \/ UnregisterScan(t)
        \/ UnregisterClearHandle(t)
        \/ \E ptr \in Slots : CallWrapper(t, ptr, 5)
        \/ WrapperLock(t)
        \/ WrapperCopy(t)
        \/ WrapperInvoke(t)
        \/ Return(t)

FlightInit ==
    /\ Fresh
    /\ left = MaxFlightCalls
    /\ active = Threads

FlightSpec == FlightInit /\ [][FlightNext]_vars

\* Runs in which the registered closures may re-enter the registry.
RegistryStep(t) ==
    \/ RegisterLock(t)
    \/ RegisterScan(t)
    \/ RegisterStoreHandle(t)
    \/ UnregisterLock(t)
    \/ UnregisterScan(t)
    \/ UnregisterClearHandle(t)
    \/ UnregisterAllLock(t)
    \/ UnregisterAllClear(t)
    \/ SizeLock(t)
    \/ SizeCount(t)
    \/ WrapperLock(t)
    \/ WrapperCopy(t)
    \/ WrapperInvoke(t)

ReNext ==
    \E t \in Threads :
        \/ \E cb \in Lambdas \cup ReClosures : CallRegister(t, cb)
        \/ \E handle \in Handles : CallUnregister(t, handle)
        \/ CallUnregisterAll(t)
        \/ CallSize(t)
        \/ \E ptr \in Slots, a \in Args : CallWrapper(t, ptr, a)
        \/ RegistryStep(t)
        \/ ClosureCall(t)
        \/ ClosureReturn(t)
        \/ Return(t)

\* Fair scheduling: a thread that is inside a call and can take its next
\* step eventually takes it.
ThreadStep(t) ==
    \/ RegistryStep(t)
    \/ ClosureCall(t)
    \/ ClosureReturn(t)
    \/ Return(t)

Fairness == \A t \in Threads : WF_vars(ThreadStep(t))

ReSeqInit ==
    /\ Fresh
    /\ left = MaxReSeqCalls
    /\ active = {1}

ReSeqSpec == ReSeqInit /\ [][ReNext]_vars /\ Fairness

LiveInit ==
    /\ Fresh
    /\ left = MaxLiveCalls
    /\ active = Threads

LiveSpec == LiveInit /\ [][ReNext]_vars /\ Fairness


\* ---------------------------------------------------------------- properties
Live(h, i) == Reg(<<h, i>>).st = "live"

LiveKeys == {k \in DOMAIN regs : regs[k].st = "live"}

Occupied == {i \in Slots : callbacks_[i] # Empty}

Finished(t, op) == pc[t] = "done" /\ loc[t].op = op

\* Thread t takes a step of its current call.
StepOf(t) == pc'[t] # pc[t]

\* C1: from the empty registry, with only non-empty closures registered and
\* nothing unregistered, at most MaxCallbacks registrations succeed, a
\* registration fails only when MaxCallbacks have succeeded (so of
\* MaxCallbacks + 1 calls exactly one fails), and outside a writer's critical
\* section the table holds exactly the closures of the successful calls, each
\* once, in the slot whose trampoline was returned.
C1_Capacity ==
    (~anyUnreg /\ ~anyEmpty) =>
        /\ nOk <= MaxCallbacks
        /\ (nFull > 0 => nOk = MaxCallbacks)
        /\ (nOk + nFull = MaxCallbacks + 1 => nOk = MaxCallbacks /\ nFull = 1)
        /\ Cardinality(LiveKeys) = nOk
        /\ (writer = NoThread =>
              /\ Cardinality(Occupied) = nOk
              /\ \A k \in LiveKeys :
                    callbacks_[k[2]] = regs[k].cb /\ handles_[k[2]] = k[1]
              /\ \A i \in Occupied : Cardinality({h \in Handles : Live(h, i)}) = 1)

C1_Witness ==
    /\ ~anyUnreg /\ ~anyEmpty
    /\ nOk = MaxCallbacks /\ nFull = 1
    /\ \E t, u \in Threads :
          /\ t # u
          /\ Finished(t, "register") /\ ~loc[t].ok
          /\ Finished(u, "register") /\ loc[u].ok

\* C2: an invocation through pointer p, for every handle h that was returned
\* with p before the invocation began and whose registration no
\* unregister_callback(h) or unregister_all has touched, invokes the closure
\* registered under h (when it is callable) and never another closure.
C2_DispatchesToOwnClosure ==
    \A t \in Threads :
        Finished(t, "invoke") =>
            \A h \in loc[t].known :
                LET r == regs[<<h, loc[t].idx>>] IN
                (r.st = "live" /\ ~r.touched) =>
                    /\ (loc[t].ok => loc[t].copyReg = h /\ loc[t].copy = r.cb)
                    /\ (r.cb # Empty => loc[t].ok)

\* C3: an invocation through pointer p, for every registration that returned p
\* before the invocation began and with no unregistration called since,
\* returns what calling the registered closure directly yields.
C3_RoundTrip ==
    \A t \in Threads :
        Finished(t, "invoke") =>
            \A h \in loc[t].known :
                LET r == regs[<<h, loc[t].idx>>] IN
                (r.st = "live" /\ r.quiet) => loc[t].val = Apply(r.cb, loc[t].arg)

\* C4: no two handles that were returned by successful registrations and are
\* not unregistered were returned with the same trampoline pointer.
C4_NoSharedSlot ==
    \A i \in Slots : \A h1, h2 \in Handles :
        (Live(h1, i) /\ Live(h2, i)) => h1 = h2

\* C5: no successful register_callback returns handle 0, and no slot that
\* holds a closure stores handle 0.
C5_HandleZeroNeverAssigned ==
    /\ \A t \in Threads :
          (Finished(t, "register") /\ loc[t].ok) => loc[t].val # INVALID_CALLBACK_HANDLE
    /\ (writer = NoThread =>
          \A i \in Occupied : handles_[i] # INVALID_CALLBACK_HANDLE)

\* C6: as long as the counter has not overflowed, no handle value is returned
\* twice: the successful registrations so far returned as many distinct
\* values as there were registrations, none of them 0, whatever was
\* unregistered in between.
C6_HandlesDistinct ==
    ~wrapped =>
        /\ ~reissued
        /\ Cardinality(issued) = nOk
        /\ INVALID_CALLBACK_HANDLE \notin issued

C6_Witness ==
    /\ ~wrapped
    /\ nOk = 2
    /\ \E h1, h2 \in Handles, i \in Slots :
          /\ h1 # h2
          /\ Reg(<<h1, i>>).st \in {"cleared", "wiped"}
          /\ Live(h2, i)

\* C7: an invocation through pointer p never calls a closure registered under
\* a handle h that was returned with p and for which unregister_callback(h)
\* had returned true before the invocation began.
C7_NoCallAfterUnregister ==
    \A t \in Threads :
        (Finished(t, "invoke") /\ loc[t].ok) => loc[t].copyReg \notin loc[t].dead0

\* C8 as stated: an invocation through a pointer that was returned with a
\* handle h for which unregister_callback(h) had returned true before the
\* invocation began returns the default value.
C8_DefaultAfterUnregister ==
    \A t \in Threads :
        (Finished(t, "invoke") /\ loc[t].dead0 # {}) => loc[t].val = DefaultValue

\* C8 as amended: when the trampoline copies its slot, and an
\* unregister_callback that returned true has cleared this slot and no
\* register_callback has stored a closure in it since, the invocation calls
\* no closure and returns the default value.
C8_DefaultUntilSlotReused ==
    \A t \in Threads :
        (Finished(t, "invoke") /\ loc[t].sawCleared) =>
            (~loc[t].ok /\ loc[t].val = DefaultValue)

C8_Witness ==
    \E t \in Threads :
        /\ Finished(t, "invoke") /\ loc[t].sawCleared
        /\ loc[t].arg # 0
        /\ \E i \in Occupied : i # loc[t].idx

\* C9: the scan of register_callback, run when every slot holds a closure,
\* returns nullopt and changes no closure, no handle and not next_handle_;
\* neither do the call and the lock acquisition before it.
C9_FullMutatesNothing ==
    [][\A t \in Threads :
          /\ (StepOf(t) /\ pc'[t] \in {"reg_lock", "reg_scan"}) => table' = table
          /\ (StepOf(t) /\ pc[t] = "reg_scan" /\ CountCallbacks = MaxCallbacks) =>
                /\ pc'[t] = "done"
                /\ ~loc'[t].ok
                /\ loc'[t].ptr = NullPtr
                /\ table' = table]_vars

C9_Witness ==
    \E t \in Threads :
        /\ Finished(t, "register") /\ ~loc[t].ok
        /\ CountCallbacks = MaxCallbacks

\* C10: unregister_callback(h) with h the invalid handle, or with h stored in
\* no slot, returns false and changes no closure, no handle and not
\* next_handle_.
C10_UnknownHandleIsNoOp ==
    [][\A t \in Threads :
          /\ (StepOf(t) /\ pc'[t] \in {"unreg_lock", "unreg_scan"}) => table' = table
          /\ (StepOf(t) /\ pc[t] = "idle" /\ loc'[t].op = "unregister"
                /\ loc'[t].h = INVALID_CALLBACK_HANDLE) =>
                (pc'[t] = "done" /\ ~loc'[t].ok /\ table' = table)
          /\ (StepOf(t) /\ pc[t] = "unreg_scan"
                /\ ~\E i \in Slots : handles_[i] = loc[t].h) =>
                (pc'[t] = "done" /\ ~loc'[t].ok /\ table' = table)]_vars

\* A second unregister_callback(h) has returned false while another
\* registration is still in the table.
C10_Witness ==
    \E t \in Threads : \E i \in Slots :
        /\ Finished(t, "unregister") /\ ~loc[t].ok
        /\ Reg(<<loc[t].h, i>>).st = "cleared"
        /\ \E k \in LiveKeys : callbacks_[k[2]] = regs[k].cb /\ regs[k].cb # Empty

\* C11: a trampoline invocation changes no closure, no handle and not
\* next_handle_ at any of its steps; what it copies under the shared lock is
\* what its slot holds; and when the copy is empty it calls nothing and
\* returns the default value, which is not an error.
C11_EmptySlotIsSilent ==
    [][\A t \in Threads :
          /\ (StepOf(t) /\ loc'[t].op = "invoke") => table' = table
          /\ (StepOf(t) /\ pc[t] = "wr_copy") =>
                loc'[t].copy = callbacks_[loc[t].idx]
          /\ (StepOf(t) /\ pc[t] = "wr_call" /\ loc[t].copy = Empty) =>
                /\ pc'[t] = "done"
                /\ ~loc'[t].ok
                /\ loc'[t].val = DefaultValue
                /\ loc'[t].val # BadFunctionCall]_vars

C11_Witness ==
    \E t \in Threads :
        /\ Finished(t, "invoke") /\ loc[t].copy = Empty /\ ~loc[t].ok
        /\ loc[t].arg # 0
        /\ callbacks_[loc[t].idx] = Empty
        /\ Occupied # {}

\* The registration to which handle was issued has been removed.
Gone(handle) ==
    \E i \in Slots : Reg(<<handle, i>>).st \in {"cleared", "removed", "wiped"}

\* C13: the scan of unregister_callback(h) clears only a slot whose closure
\* was registered under h; and when the registration to which h was issued
\* is already gone, it returns false and changes no closure and no handle,
\* whatever was registered since.
C13_StaleHandleRemovesNothing ==
    [][\A t \in Threads :
          (StepOf(t) /\ pc[t] = "unreg_scan") =>
              /\ (pc'[t] = "unreg_handle" =>
                    /\ slotReg[loc'[t].idx] = loc[t].h
                    /\ Live(loc[t].h, loc'[t].idx))
              /\ (Gone(loc[t].h) =>
                    (pc'[t] = "done" /\ ~loc'[t].ok /\ table' = table))]_vars

\* Thread t is about to acquire mutex_.
Waiting(t) == pc[t] \in {"reg_lock", "unreg_lock", "all_lock", "size_lock", "wr_lock"}

\* Thread t is inside a method that closure cb called from its body.
InsideClosure(t, cb) == frame[t].sop = "closure" /\ frame[t].saved.copy = cb

\* C12: a closure invoked through its trampoline that calls a method of its
\* registry never waits for a lock its own thread holds, the method returns
\* and the invocation completes; and unregister_callback on the closure's own
\* handle returns true.
C12_ReentryReturns ==
    /\ [](\A t \in Threads :
            /\ Waiting(t) => (writer # t /\ t \notin readers)
            /\ (InsideClosure(t, "re_unregister") /\ pc[t] = "done") => loc[t].ok)
    /\ \A t \in Threads :
          [](frame[t].sop = "closure" =>
                <>(frame[t].sop = "none" /\ Finished(t, "invoke")))

\* Thread t is inside an operation and cannot take a step: it waits for mutex_.
Blocked(t) == pc[t] # "idle" /\ ~ENABLED ThreadStep(t)

\* C15: under fair scheduling every operation a thread has started returns;
\* a thread that cannot step is waiting for the lock, which another thread
\* holds and can release, so the threads are never all blocked.
C15_DeadlockFree ==
    /\ [](\A t \in Threads :
            Blocked(t) =>
                /\ Waiting(t)
                /\ \E u \in Threads \ {t} :
                      (writer = u \/ u \in readers) /\ ENABLED ThreadStep(u))
    /\ [](\E t \in Threads : ~Blocked(t))
    /\ \A t \in Threads : (pc[t] # "idle") ~> (pc[t] = "idle")

\* A thread waits for the lock while another thread, inside a method its
\* closure called, holds it exclusively.
C15_Witness ==
    \E t, u \in Threads :
        /\ t # u
        /\ Blocked(t)
        /\ writer = u
        /\ frame[u].sop = "closure"

MainOps == {"register", "unregister", "unregister_all", "size", "invoke"}

OtherOps == {"other_register", "other_unregister", "other_unregister_all", "other_invoke"}

\* C14: a step of a method or trampoline of the registry modelled in full
\* changes the table of no other registry; a step of a method or trampoline
\* of another registry changes neither callbacks_, handles_, next_handle_ nor
\* the lock of the first; the table of each triple is exactly what the
\* operations made on that triple produce; and a trampoline copies the
\* closure its own registry holds in its slot.
C14_RegistriesIndependent ==
    [][/\ \A T \in OtherTriples : other'[instance(T)] = otherHist'[T]
       /\ \A t \in Threads :
             /\ (StepOf(t) /\ loc'[t].op \in MainOps) => other' = other
             /\ (StepOf(t) /\ loc'[t].op \in OtherOps) =>
                   (table' = table /\ lockVars' = lockVars)
             /\ (StepOf(t) /\ loc'[t].op = "other_invoke") =>
                   (loc'[t].copy = loc'[t].cb /\ other' = other)
             /\ (StepOf(t) /\ pc[t] = "wr_copy") =>
                   loc'[t].copy = callbacks_[loc[t].idx]]_vars

\* A trampoline of one registry has called its closure while the registry
\* modelled in full holds another closure and a third registry is empty.
C14_Witness ==
    \E t \in Threads : \E T \in OtherTriples :
        /\ Finished(t, "other_invoke") /\ loc[t].ok /\ loc[t].arg # 0
        /\ other[instance(T)] = FreshRegistry
        /\ \E i \in Occupied : callbacks_[i] # loc[t].copy

\* Handle h is registered: a slot stores it together with a closure.
Registered(h) == \E i \in Slots : handles_[i] = h /\ callbacks_[i] # Empty

\* C16: no handle registered by a constructor is passed to
\* unregister_callback more than once by scoped_callback objects; and once
\* the last object that owned it is destroyed without release(), it was
\* passed exactly once and (seen outside a writer's critical section) is no
\* longer registered.
C16_ExactlyOnce ==
    \A h \in DOMAIN scoped :
        /\ scoped[h].calls <= 1
        /\ (scoped[h].ended /\ ~scoped[h].released) =>
              /\ scoped[h].calls = 1
              /\ (writer = NoThread => ~Registered(h))

\* The registration that obj holds is in the table after this step.
HoldsLiveNext(obj) ==
    /\ is_valid(obj)
    /\ obj.callback_ \in Slots
    /\ callbacks_'[obj.callback_] # Empty
    /\ handles_'[obj.callback_] = obj.handle_

\* This step is the return of a move (construction or assignment) on thread t.
MoveReturns(t) ==
    /\ pc'[t] = "done" /\ loc'[t].op = "scoped_move"
    /\ (pc[t] # "done" \/ loc[t].op # "scoped_move")

\* This step is the host's call of o.reset() / the start of o's destruction.
ResetCalled(t, o) ==
    /\ pc[t] = "idle"
    /\ \/ frame'[t].sop = "reset" /\ frame'[t].obj = o
       \/ pc'[t] = "done" /\ loc'[t].op = "scoped_reset" /\ loc'[t].idx = o

DestroyCalled(t, o) ==
    /\ pc[t] = "idle"
    /\ \/ frame'[t].sop = "destroy" /\ frame'[t].obj = o
       \/ pc'[t] = "done" /\ loc'[t].op = "scoped_destroy" /\ loc'[t].idx = o

\* A method of object o that runs reset() is in progress.
Resetting(o) ==
    \E t \in Threads : frame[t].obj = o /\ frame[t].sop \in {"reset", "destroy", "assign"}

\* A register_callback is between its closure store and its handle store.
MidRegister == \E t \in Threads : pc[t] = "reg_handle"

\* The move that returns on thread t in this step transferred what src held.
MoveTransferred(t) ==
    LET src == loc'[t].src
        dst == loc'[t].idx
        srcLive == IF frame[t].sop = "assign" THEN frame[t].srcLive
                   ELSE HoldsLive(objs[src])
    IN /\ objs'[dst] = [alive |-> TRUE, handle_ |-> objs[src].handle_,
                        callback_ |-> objs[src].callback_]
       /\ objs'[src] = InvalidObj
       /\ loc'[t].ptr = objs[src].callback_
       /\ srcLive => HoldsLiveNext(objs'[dst])

\* reset() or destruction of o, which is invalid, returns at once in this step.
InvalidIsLeftAlone(t, o) ==
    /\ pc'[t] = "done"
    /\ table' = table
    /\ scoped' \in {scoped, ScopedEnded(scoped, o)}

\* C17: when a move from src to dst returns, dst holds the handle and the
\* pointer src held and src is invalid, and a registration src held in the
\* table is still in the table; reset() or destruction of an invalid object
\* (such as the moved-from source) returns at once with the table unchanged;
\* and a registration an object holds stays in the table as long as that
\* object is not reset, destroyed, assigned to, moved from or released.
C17_MoveTransfers ==
    [][\A t \in Threads :
          /\ MoveReturns(t) => MoveTransferred(t)
          /\ \A o \in Objs :
                /\ ((ResetCalled(t, o) \/ DestroyCalled(t, o)) /\ objs[o] = InvalidObj) =>
                      InvalidIsLeftAlone(t, o)
                /\ (HoldsLive(objs[o]) /\ ~Resetting(o) /\ ~MidRegister
                      /\ objs'[o] = objs[o]) =>
                      HoldsLiveNext(objs[o])]_vars
\* This step is the host's call of o.release() on thread t.
ReleaseCalled(t, o) ==
    /\ pc[t] = "idle"
    /\ pc'[t] = "done" /\ loc'[t].op = "scoped_release" /\ loc'[t].idx = o

\* Object o gave up a registration by release() and holds nothing since.
HasReleased(o) ==
    /\ objs[o] = InvalidObj
    /\ \E h \in DOMAIN scoped : scoped[h].last = o /\ scoped[h].released

\* C18: release() returns the pointer the object held and leaves the object
\* invalid without entering the registry: callbacks_, handles_ and
\* next_handle_ are unchanged by release() and by the destruction of the
\* released object, which returns at once; a closure the object's slot held
\* is still there, and a trampoline whose slot holds a closure calls it.
C18_ReleaseKeepsRegistration ==
    [][\A t \in Threads :
          /\ \A o \in Objs :
                /\ ReleaseCalled(t, o) =>
                      /\ loc'[t].ptr = objs[o].callback_
                      /\ objs'[o] = InvalidObj
                      /\ table' = table
                      /\ HoldsLive(objs[o]) => callbacks_'[loc'[t].ptr] = callbacks_[objs[o].callback_]
                /\ (DestroyCalled(t, o) /\ HasReleased(o)) =>
                      /\ pc'[t] = "done"
                      /\ table' = table
                      /\ objs'[o] = NoObj
          /\ (StepOf(t) /\ pc[t] = "wr_call" /\ loc[t].copy # Empty) =>
                /\ loc'[t].ok
                /\ loc'[t].val = Apply(loc[t].copy, loc[t].arg)]_vars

\* A trampoline pointer obtained by release() from an object since destroyed
\* is invoked and calls the closure the object had registered.
C18_Witness ==
    \E t \in Threads : \E h \in DOMAIN scoped :
        /\ scoped[h].released /\ scoped[h].ended /\ scoped[h].calls = 0
        /\ Finished(t, "invoke") /\ loc[t].ok /\ loc[t].arg # 0
        /\ handles_[loc[t].idx] = h
        /\ callbacks_[loc[t].idx] = loc[t].copy
        /\ loc[t].val = Apply(loc[t].copy, loc[t].arg)
        /\ \A o \in Objs : ~objs[o].alive

\* This step is the return of o.reset() to the host on thread t.
ResetReturns(t, o) ==
    /\ pc'[t] = "done" /\ loc'[t].op = "scoped_reset" /\ loc'[t].idx = o
    /\ (pc[t] # "done" \/ loc[t].op # "scoped_reset")

\* Step of thread t for object o, in view of what reset() has to do.
ResetIdempotent(t, o) ==
    /\ (ResetCalled(t, o) /\ is_valid(objs[o])) =>
          /\ pc'[t] = "unreg_lock"
          /\ loc'[t].h = objs[o].handle_
          /\ frame'[t].sop = "reset"
    /\ ResetReturns(t, o) =>
          /\ ~is_valid(objs'[o])
          /\ objs'[o] = InvalidObj
    /\ ((ResetCalled(t, o) \/ DestroyCalled(t, o)) /\ ~is_valid(objs[o])) =>
          /\ pc'[t] = "done"
          /\ table' = table
          /\ lockVars' = lockVars
          /\ objs'[o] \in {objs[o], NoObj}

\* C19: reset() on a valid object calls unregister_callback with the
\* object's handle, and when reset() returns the object is invalid (handle_
\* INVALID_CALLBACK_HANDLE, callback_ null, boolean test false); reset() or
\* the destructor on an invalid object returns at once without entering the
\* registry and with callbacks_, handles_, next_handle_ and the object's
\* members unchanged.
C19_ResetIdempotent ==
    [][\A t \in Threads : \A o \in Objs : ResetIdempotent(t, o)]_vars

\* Thread t is in, or in this step enters, the constructor of object o, and
\* the registry was full when the constructor was called.
ConstructingWhileFull(t, o) ==
    \/ frame[t].sop = "construct" /\ frame[t].obj = o /\ frame[t].full
    \/ /\ pc[t] = "idle" /\ CountCallbacks = MaxCallbacks
       /\ frame'[t].sop = "construct" /\ frame'[t].obj = o

\* This step is the return of o's constructor on thread t.
ConstructReturns(t, o) ==
    /\ frame[t].sop = "construct" /\ frame[t].obj = o
    /\ pc'[t] = "done" /\ loc'[t].op = "scoped_construct"

\* C20: a constructor called with every slot holding a closure returns
\* normally with the object alive and invalid (handle_
\* INVALID_CALLBACK_HANDLE, callback_ null, boolean test false), none of its
\* steps changes callbacks_, handles_ or next_handle_, and it records no
\* registration; the destructor of an object in that state returns at once
\* without entering the registry and with the table unchanged.
C20_FullConstructIsQuiet ==
    [][\A t \in Threads : \A o \in Objs :
          /\ (ConstructingWhileFull(t, o) /\ StepOf(t)) => table' = table
          /\ (ConstructingWhileFull(t, o) /\ ConstructReturns(t, o)) =>
                /\ objs'[o].alive
                /\ objs'[o].handle_ = INVALID_CALLBACK_HANDLE
                /\ objs'[o].callback_ = NullPtr
                /\ ~is_valid(objs'[o])
                /\ loc'[t].ptr = NullPtr
                /\ scoped' = scoped
          /\ (DestroyCalled(t, o) /\ objs[o] = InvalidObj) =>
                /\ pc'[t] = "done"
                /\ table' = table
                /\ lockVars' = lockVars
                /\ \A h \in DOMAIN scoped : scoped'[h].calls = scoped[h].calls]_vars

\* An object whose constructor found the registry full (no constructor ever
\* registered anything) has been destroyed, and the registry is still full.
C20_Witness ==
    \E t \in Threads :
        /\ Finished(t, "scoped_destroy")
        /\ DOMAIN scoped = {}
        /\ nFull >= 1
        /\ CountCallbacks = MaxCallbacks
        /\ \A o \in Objs : ~objs[o].alive

\* C21: operator[](index) on a container of n objects returns the object at
\* position index when 0 <= index < n, the object at position n + index when
\* -n <= index < 0, and nullptr for every other index; for a negative index
\* the position is n - size_t(-index) modulo 2^SizeBits (compared wherever
\* -index is a value of int).
C21_NegativeIndexing ==
    query.called =>
        LET n == Size
            index == query.index
        IN /\ (0 <= index /\ index < n) => query.ret = objects[index + 1].id
           /\ (-n <= index /\ index < 0) => query.ret = objects[n + index + 1].id
           /\ (index >= n \/ index < -n) => query.ret = NullPtr
           /\ (index < 0 /\ -index \in Ints) =>
                 query.idx = (n - ToSizeT(-index)) % SizeModulus

\* The instructions in a list.
Range(list) == {list[k] : k \in 1 .. Len(list)}

\* C22: when keep_lca_cinsns returns, the list holds exactly the input
\* instructions that are not an ancestor of any other input instruction.
C22_KeepsDeepest ==
    lca.pc = "done" =>
        Range(bulk_list) =
            {x \in Range(lca.input) : ~\E y \in Range(lca.input) : is_ancestor_of(x, y)}

\* C23: whenever no thread is inside a writer critical section, a slot
\* stores a handle other than INVALID_CALLBACK_HANDLE exactly if it holds a
\* closure.
C23_SlotHandleConsistent ==
    writer = NoThread =>
        \A i \in Slots :
            handles_[i] # INVALID_CALLBACK_HANDLE <=> callbacks_[i] # Empty

\* Thread t owns mutex_, shared or exclusive.
HoldsLock(t) == writer = t \/ t \in readers

\* Control of thread t is in the body of a closure called by a trampoline:
\* the trampoline is at its call of the non-empty copy, or the closure has
\* called a registry method that has not taken the lock yet or has returned.
ExecutingClosure(t) ==
    \/ pc[t] = "wr_call" /\ loc[t].copy # Empty
    \/ frame[t].sop = "closure" /\ (Waiting(t) \/ pc[t] = "done")

\* Control of thread t is in wrapper_function itself.
InTrampoline(t) == loc[t].op = "invoke" /\ frame[t].sop = "none" /\ pc[t] # "idle"

\* C24: a thread whose control is in a closure called by a trampoline owns
\* mutex_ neither shared nor exclusive; a trampoline never owns it
\* exclusive, and owns it shared only at the copy of callbacks_[Index].
C24_InvokedOutsideLock ==
    \A t \in Threads :
        /\ ExecutingClosure(t) => ~HoldsLock(t)
        /\ InTrampoline(t) => writer # t
        /\ (InTrampoline(t) /\ t \in readers) => pc[t] = "wr_copy"
        /\ (frame[t].sop = "closure" /\ t \in readers) => pc[t] = "size_count"

\* A thread is about to call the closure it copied while another thread is
\* inside a writer critical section.
C24_Witness ==
    \E t, u \in Threads :
        /\ t # u
        /\ pc[t] = "wr_call" /\ loc[t].copy \in ReClosures
        /\ writer = u
        /\ frame[u].sop = "closure"

\* Thread t is executing the closure it copied from slot i.
InFlight(t, i) == pc[t] = "wr_call" /\ loc[t].idx = i /\ loc[t].copy # Empty

\* Slot i holds a closure that thread t is executing, stored under handle h.
InFlightUnder(t, i, h) ==
    InFlight(t, i) /\ callbacks_[i] # Empty /\ handles_[i] = h

\* What C25 asks of a step, for thread t.
InFlightStep(t) ==
    /\ pc[t] = "wr_call" => ~HoldsLock(t)
    /\ (pc[t] = "unreg_lock" /\ ~ENABLED UnregisterLock(t)) =>
          \E w \in Threads \ {t} : HoldsLock(w) /\ pc[w] # "wr_call"
    /\ \A u \in Threads \ {t} : \A i \in Slots :
          /\ (InFlightUnder(t, i, loc'[u].h) /\ pc[u] = "idle" /\ StepOf(u)
                /\ loc'[u].op = "unregister" /\ writer = NoThread) =>
                pc'[u] = "unreg_lock"
          /\ (InFlightUnder(t, i, loc[u].h) /\ pc[u] = "unreg_scan" /\ StepOf(u)) =>
                /\ pc'[u] = "unreg_handle"
                /\ callbacks_'[i] = Empty
          /\ (InFlight(t, i) /\ pc[u] = "unreg_handle" /\ StepOf(u)) =>
                /\ pc'[u] = "done"
                /\ loc'[u].ok
                /\ handles_'[loc[u].idx] = INVALID_CALLBACK_HANDLE
    /\ (pc[t] = "wr_copy" /\ StepOf(t)) => loc'[t].copy = callbacks_[loc[t].idx]
    /\ (pc[t] = "wr_call" /\ pc'[t] = "wr_call") => loc'[t].copy = loc[t].copy
    /\ (pc[t] = "wr_call" /\ loc[t].copy # Empty) => ENABLED WrapperInvoke(t)
    /\ (pc[t] = "wr_call" /\ loc[t].copy # Empty /\ StepOf(t)) =>
          /\ pc'[t] = "done"
          /\ loc'[t].ok
          /\ loc'[t].val = Apply(loc[t].copy, loc[t].arg)

\* C25: a thread executing its copy owns no lock, so an unregistration that
\* waits for mutex_ is never kept waiting by it; unregister_callback called
\* by another thread with the handle stored in the slot of an in-flight
\* invocation goes on to take the lock, clears that slot and returns true;
\* and the invocation keeps the closure that was in its slot at the copy:
\* no step of another thread changes it, and it completes by calling it.
C25_InFlightKeepsSnapshot ==
    [][\A t \in Threads : InFlightStep(t)]_vars

\* Thread t is inside the scan-and-update of register_callback,
\* unregister_callback or unregister_all.
InWriterSection(t) ==
    pc[t] \in {"reg_scan", "reg_handle", "unreg_scan", "unreg_handle", "all_clear"}

\* Thread t is inside the count of size() or the copy of a trampoline.
InReaderSection(t) == pc[t] \in {"size_count", "wr_copy"}

\* A slot's closure is updated and its handle not yet.
HalfUpdated == \E t \in Threads : pc[t] \in {"reg_handle", "unreg_handle"}

\* C26: a thread is inside a scan-and-update exactly while it owns mutex_
\* exclusively, and inside size()'s count or a trampoline's copy exactly
\* while it owns it shared; no two threads are inside writer sections at
\* once and none is inside a writer section while any is inside a reader
\* section; callbacks_, handles_ and next_handle_ change only in steps of the
\* exclusive owner; and no thread reads the table while a slot is half
\* updated.
C26_LockDiscipline ==
    /\ [](/\ \A t \in Threads :
                /\ InWriterSection(t) <=> writer = t
                /\ InReaderSection(t) <=> t \in readers
          /\ \A t, u \in Threads :
                (t # u /\ InWriterSection(t)) => ~InWriterSection(u) /\ ~InReaderSection(u)
          /\ (\E t \in Threads : InReaderSection(t)) => ~HalfUpdated)
    /\ [][table' # table => \E t \in Threads : writer = t /\ StepOf(t)]_vars

\* Two threads are inside reader sections at once: one counts for size(),
\* the other copies for a trampoline, with a closure registered.
C26_Witness ==
    \E t, u \in Threads :
        /\ pc[t] = "size_count" /\ pc[u] = "wr_copy"
        /\ t \in readers /\ u \in readers
        /\ Occupied # {}

\* This step is the return of size() on thread t.
SizeReturns(t) == pc[t] = "size_count" /\ pc'[t] = "done"

\* C27: the value size() returns is the number of slots holding a closure at
\* the instant of its return step, which lies between the call and the
\* return, and is at most capacity(); while size() counts, no step changes
\* the table, and its running count never exceeds the elements visited.
C27_SizeLinearizable ==
    [][\A t \in Threads :
          /\ SizeReturns(t) =>
                /\ loc'[t].val = CountCallbacks
                /\ loc'[t].val <= MaxCallbacks
          /\ pc[t] = "size_count" =>
                /\ table' = table
                /\ loc[t].val <= loc[t].idx
                /\ loc[t].val = Cardinality({i \in Occupied : i < loc[t].idx})]_vars

\* size() has returned 1 to a thread that has not resumed yet, and another
\* thread's registration has since raised the number of closures to 2.
C27_Witness ==
    \E t, u \in Threads :
        /\ t # u
        /\ Finished(t, "size") /\ loc[t].val = 1
        /\ Finished(u, "register") /\ loc[u].ok
        /\ CountCallbacks = 2

\* ---------------------------------------------------------------- C28
\* A step in which thread t's register_callback finds a free slot and takes its
\* handle from the counter.
TakesHandle(t) == pc[t] = "reg_scan" /\ pc'[t] = "reg_handle"

\* C28: the counter starts at 1; the n-th successful register_callback takes
\* handle n, greater than every handle issued before it, and moves the counter
\* up by exactly one; every other step (failed registrations,
\* unregister_callback, unregister_all, the rest) leaves next_handle_ as it is.
C28_HandleSequence ==
    /\ []((nOk = 0 /\ \A t \in Threads : pc[t] # "reg_handle") => next_handle_ = 1)
    /\ [][\A t \in Threads :
            /\ TakesHandle(t) =>
                  /\ loc'[t].h = nOk + 1
                  /\ next_handle_' = next_handle_ + 1
                  /\ \A h \in issued : h < loc'[t].h
            /\ (\A u \in Threads : ~TakesHandle(u)) => next_handle_' = next_handle_]_vars


\* ---------------------------------------------------------------- C29
\* Slot i was freed by an unregister_callback that returned true, nothing has
\* been registered in it since, and every other slot holds a closure: the
\* registry was full when that call cleared the slot.
FreedFromFull(i) ==
    /\ FreeSlots = {i}
    /\ \E k \in DOMAIN regs : k[2] = i /\ regs[k].st = "cleared" /\ ~regs[k].reused

\* A step of thread t's register_callback.
RegisterStep(t) == pc[t] \in {"reg_scan", "reg_handle"} /\ pc'[t] # pc[t]

\* What the slot reuse requires of a step of thread t: in a full registry,
\* after unregister_callback(h1) has returned true, the
\* next register_callback succeeds, takes the slot h1 freed and so returns the
\* trampoline pointer h1 had, and returns a handle that was never issued before;
\* the registration leaves the closures and handles of the other slots alone, so
\* their trampolines still return their closures' results.
SlotReuseStep(t) ==
        /\ \A i \in Slots :
              (FreedFromFull(i) /\ pc[t] = "reg_scan" /\ pc'[t] # "reg_scan") =>
                  /\ TakesHandle(t)
                  /\ loc'[t].idx = i
                  /\ loc'[t].h \notin issued
        /\ (pc[t] = "reg_handle" /\ pc'[t] # "reg_handle") =>
              /\ loc'[t].ok
              /\ loc'[t].val = loc[t].h
              /\ loc'[t].ptr = get_wrapper_for_index(loc[t].idx)
        /\ RegisterStep(t) =>
              \A j \in Slots \ {loc'[t].idx} :
                  /\ callbacks_'[j] = callbacks_[j]
                  /\ handles_'[j] = handles_[j]
                  /\ \A a \in Args :
                        InvokeCopy(callbacks_'[j], a) = InvokeCopy(callbacks_[j], a)

\* C29: in a full registry, after unregister_callback(h1) returned true, the next
\* register_callback succeeds, takes the slot h1 freed (the same trampoline
\* pointer) and a handle different from every handle issued before, and leaves
\* the other registrations' slots, and so their trampolines' results, alone.
C29_SlotReuseFreshHandle == [][\A t \in Threads : SlotReuseStep(t)]_vars


\* ---------------------------------------------------------------- C30
\* Handle h is live: a successful register_callback returned it and neither
\* unregister_callback(h) nor unregister_all has removed that registration.
LiveHandle(h) == \E i \in Slots : Live(h, i)

\* Every slot other than i keeps its closure and its handle, and the counter
\* keeps its value.
OthersUntouched(i) ==
    /\ \A j \in Slots \ {i} : callbacks_'[j] = callbacks_[j] /\ handles_'[j] = handles_[j]
    /\ next_handle_' = next_handle_

\* What unregister_callback(h) of a live handle requires of a step of thread t:
\* the call goes on to the scan, the scan finds the slot that stores h and
\* empties its closure, the last step sets its handle to INVALID and returns
\* true, and no step touches another slot or the counter.
UnregisterLiveStep(t) ==
    /\ (pc[t] = "idle" /\ loc'[t].op = "unregister" /\ LiveHandle(loc'[t].h)) =>
          pc'[t] = "unreg_lock"
    /\ (pc[t] = "unreg_scan" /\ StepOf(t) /\ LiveHandle(loc[t].h)) =>
          /\ pc'[t] = "unreg_handle"
          /\ Live(loc[t].h, loc'[t].idx)
          /\ handles_[loc'[t].idx] = loc[t].h
          /\ callbacks_'[loc'[t].idx] = Empty
          /\ handles_'[loc'[t].idx] = handles_[loc'[t].idx]
          /\ OthersUntouched(loc'[t].idx)
    /\ (pc[t] = "unreg_handle" /\ StepOf(t)) =>
          /\ loc'[t].ok
          /\ callbacks_'[loc[t].idx] = Empty
          /\ handles_'[loc[t].idx] = INVALID_CALLBACK_HANDLE
          /\ \A j \in Slots \ {loc[t].idx} : handles_'[j] # loc[t].h \/ callbacks_'[j] = Empty
          /\ OthersUntouched(loc[t].idx)

\* C30: unregister_callback(h) for a live handle h returns true and clears
\* exactly the slot that stores h (closure emptied, handle set to INVALID); the
\* closures and handles of all other slots and next_handle_ are unchanged.
C30_UnregisterClearsOneSlot == [][\A t \in Threads : UnregisterLiveStep(t)]_vars


\* ---------------------------------------------------------------- C31
\* Every slot is empty and every stored handle is INVALID.
AllClear ==
    \A i \in Slots : callbacks_[i] = Empty /\ handles_[i] = INVALID_CALLBACK_HANDLE

\* unregister_all removed a closure from slot i and no register_callback has
\* taken the slot since.
WipedSlot(i) ==
    \E k \in DOMAIN regs :
        k[2] = i /\ regs[k].st = "wiped" /\ regs[k].cb # Empty /\ ~regs[k].reused

\* What unregister_all requires of a step of thread t: its clearing step
\* leaves the registry clear, and in a clear registry size() returns 0, a
\* registration finds capacity() free slots and succeeds, and
\* unregister_callback returns false and changes nothing; a trampoline whose
\* slot was wiped and not registered again copies no closure and returns the
\* default value.
UnregisterAllStep(t) ==
    /\ (pc[t] = "all_clear" /\ StepOf(t)) => AllClear'
    /\ (AllClear /\ pc[t] = "size_count" /\ pc'[t] = "done") => loc'[t].val = 0
    /\ (AllClear /\ pc[t] = "reg_scan" /\ StepOf(t)) =>
          TakesHandle(t) /\ Cardinality(FreeSlots) = capacity
    /\ (AllClear /\ pc[t] = "idle" /\ loc'[t].op = "unregister" /\ pc'[t] = "done") =>
          ~loc'[t].ok /\ table' = table
    /\ (AllClear /\ pc[t] = "unreg_scan" /\ StepOf(t)) =>
          pc'[t] = "done" /\ ~loc'[t].ok /\ table' = table
    /\ \A i \in Slots : WipedSlot(i) =>
          callbacks_[i] = Empty /\ handles_[i] = INVALID_CALLBACK_HANDLE
    /\ (pc[t] = "wr_copy" /\ StepOf(t) /\ WipedSlot(loc[t].idx)) => loc'[t].copy = Empty
    /\ (pc[t] = "wr_call" /\ StepOf(t) /\ loc[t].copy = Empty) =>
          loc'[t].val = DefaultValue /\ ~loc'[t].ok

\* C31: unregister_all() leaves every slot empty and every stored handle
\* INVALID whatever the prior state; afterwards size() is 0, capacity() further
\* registrations can succeed, unregister_callback of any handle returns false,
\* and every trampoline returns the default value until its slot is registered
\* again.
C31_UnregisterAllClears == [][\A t \in Threads : UnregisterAllStep(t)]_vars

\* A trampoline called with 5 has returned the default value from a slot that
\* unregister_all wiped of a closure.
C31_Witness ==
    \E t \in Threads :
        /\ Finished(t, "invoke")
        /\ loc[t].arg = 5
        /\ WipedSlot(loc[t].idx)
        /\ loc[t].val = DefaultValue


\* ---------------------------------------------------------------- C32
\* Thread t is inside unregister_callback(INVALID_CALLBACK_HANDLE), or has
\* returned from it.
UnregisteringInvalid(t) ==
    loc[t].op = "unregister" /\ loc[t].h = INVALID_CALLBACK_HANDLE

\* C32: unregister_callback(INVALID_CALLBACK_HANDLE) returns false in the step
\* that calls it, whoever holds the lock: it is never found waiting for or
\* holding the lock, and the call changes neither the slots, the counter nor
\* the lock.
C32_InvalidHandleNoLock ==
    /\ [](\A t \in Threads :
             UnregisteringInvalid(t) => pc[t] \in {"idle", "done"} /\ ~loc[t].ok /\ writer # t)
    /\ [][\A t \in Threads :
             (StepOf(t) /\ UnregisteringInvalid(t)') =>
                 /\ pc[t] \in {"idle", "done"}
                 /\ table' = table
                 /\ writer' = writer
                 /\ readers' = readers]_vars

\* unregister_callback(INVALID_CALLBACK_HANDLE) has returned on one thread
\* while another thread holds the exclusive lock.
C32_Witness ==
    \E t \in Threads :
        /\ Finished(t, "unregister")
        /\ loc[t].h = INVALID_CALLBACK_HANDLE
        /\ writer \in Threads \ {t}


\* ---------------------------------------------------------------- C33
\* C33: a register_callback that succeeds takes the lowest-index empty slot:
\* the index it picks is empty, every lower index holds a closure, and the
\* pointer it returns is the entry point generated for that index, entry
\* points of distinct indices being distinct.
C33_LowestFreeSlot ==
    /\ [](\A i, j \in Slots :
             /\ get_wrapper_for_index(i) # NullPtr
             /\ i # j => get_wrapper_for_index(i) # get_wrapper_for_index(j))
    /\ [][\A t \in Threads :
             /\ TakesHandle(t) =>
                   /\ callbacks_[loc'[t].idx] = Empty
                   /\ \A j \in Slots : j < loc'[t].idx => callbacks_[j] # Empty
             /\ (pc[t] = "reg_handle" /\ StepOf(t)) =>
                   /\ loc'[t].ok
                   /\ loc'[t].idx = loc[t].idx
                   /\ loc'[t].ptr = get_wrapper_for_index(loc[t].idx)]_vars

\* A registration has succeeded in slot 1, past the occupied slot 0.
C33_Witness ==
    \E t \in Threads :
        /\ Finished(t, "register")
        /\ loc[t].ok
        /\ loc[t].idx = 1
        /\ loc[t].ptr = get_wrapper_for_index(1)
        /\ callbacks_[0] # Empty


\* ---------------------------------------------------------------- C34
\* unregister_callback(h), called now, would find a slot and return true.
WouldUnregister(h) == h # INVALID_CALLBACK_HANDLE /\ MatchingSlots(h) # {}

\* C34: with no concurrent operation, a register_callback that returns a
\* (handle, pointer) pair raises the number of closures size() counts by
\* exactly one, and unregister_callback of the handle it returned would then
\* return true, whatever closure value was registered.
C34_RegistrationObservable ==
    /\ [](\A t \in Threads :
             (Finished(t, "register") /\ loc[t].ok) => WouldUnregister(loc[t].val))
    /\ [][\A t \in Threads :
             TakesHandle(t) => CountCallbacks' = CountCallbacks + 1]_vars


\* ---------------------------------------------------------------- C35
\* C35: in every reachable state at most one scoped_callback object holds a
\* given handle value other than INVALID_CALLBACK_HANDLE, whatever sequence of
\* construction, move construction, move assignment, reset, release and
\* destruction led there.
C35_ExclusiveOwnership ==
    \A o1, o2 \in Objs :
        (/\ o1 # o2
         /\ objs[o1].alive
         /\ objs[o2].alive
         /\ objs[o1].handle_ # INVALID_CALLBACK_HANDLE) =>
            objs[o1].handle_ # objs[o2].handle_


\* ---------------------------------------------------------------- C36
\* C36: a scoped_callback keeps its two fields in step: in every reachable
\* state handle_ is INVALID_CALLBACK_HANDLE if and only if callback_ is null,
\* so is_valid() (which reads callback_) and reset() and the destructor (which
\* read handle_) agree on whether the object owns a registration.
C36_FieldsInStep ==
    \A o \in Objs :
        objs[o].alive =>
            (objs[o].handle_ = INVALID_CALLBACK_HANDLE <=> objs[o].callback_ = NullPtr)


\* ---------------------------------------------------------------- C37
\* This step is the host's call of dst = std::move(src) on thread t, dst being
\* an object that exists.
AssignCalled(t, src, dst) ==
    /\ pc[t] = "idle"
    /\ objs[dst].alive
    /\ \/ frame'[t].sop = "assign" /\ frame'[t].obj = dst /\ frame'[t].src = src
       \/ pc'[t] = "done" /\ loc'[t].idx = dst /\ loc'[t].src = src
             /\ loc'[t].op \in {"scoped_move", "scoped_self_assign"}

\* What move assignment requires of a step of thread t: assigning to a valid
\* object from another one calls unregister_callback with the handle the
\* destination holds, that call has returned true when the destination takes
\* over the source's handle and pointer, and self-assignment changes nothing.
MoveAssignStep(t) ==
    /\ \A src, dst \in Objs :
          (AssignCalled(t, src, dst) /\ src # dst /\ is_valid(objs[dst])) =>
              /\ frame'[t].sop = "assign"
              /\ pc'[t] = "unreg_lock"
              /\ loc'[t].h = objs[dst].handle_
    /\ (pc[t] = "done" /\ frame[t].sop = "assign" /\ StepOf(t)) =>
          /\ loc[t].op = "unregister" /\ loc[t].ok
          /\ objs'[frame[t].obj].handle_ = objs[frame[t].src].handle_
          /\ objs'[frame[t].obj].callback_ = objs[frame[t].src].callback_
    /\ \A o \in Objs :
          AssignCalled(t, o, o) =>
              /\ objs' = objs
              /\ table' = table
              /\ is_valid(objs[o]) => is_valid(objs'[o])
              /\ HoldsLive(objs[o]) => HoldsLiveNext(objs'[o])

\* C37: when a valid scoped_callback A is move-assigned from a different
\* object B, A's previous handle is unregistered, once, before A takes over
\* B's handle and pointer; move-assigning an object to itself changes nothing.
C37_MoveAssignNoLeak == [][\A t \in Threads : MoveAssignStep(t)]_vars


\* ---------------------------------------------------------------- C38
\* C38: after any sequence of add_action and remove_actions, every handler
\* pointer in want_hxe_popup and want_ida_popup is a handler action_handlers
\* still owns, so maybe_attach_to_popup never uses a destroyed handler.
C38_PopupListsOwned ==
    /\ Elements(am.want_hxe_popup) \subseteq Elements(am.action_handlers)
    /\ Elements(am.want_ida_popup) \subseteq Elements(am.action_handlers)
    /\ am.used \subseteq Elements(am.action_handlers)
    /\ ~am.crashed

\* ---------------------------------------------------------------- C39
\* This step is a call of add_action.
AddActionCalled == am'.made = am.made + 1

\* C39: when the host's register_action fails, add_action returns nullptr and
\* leaves action_handlers and both popup lists as they were; when it succeeds,
\* add_action returns the newly owned handler, the last of action_handlers,
\* which is appended to want_hxe_popup iff AMAHF_HXE_POPUP is set and to
\* want_ida_popup iff AMAHF_IDA_POPUP is set.
C39_AddActionRollsBack ==
    [][AddActionCalled =>
        IF am'.ok
        THEN /\ am'.act # NullPtr
             /\ am'.act \notin Elements(am.action_handlers)
             /\ am'.action_handlers = Append(am.action_handlers, am'.act)
             /\ am'.want_hxe_popup =
                   IF am'.amflags \in {1, 3, 5, 7}
                   THEN Append(am.want_hxe_popup, am'.act) ELSE am.want_hxe_popup
             /\ am'.want_ida_popup =
                   IF am'.amflags \in {4, 5, 6, 7}
                   THEN Append(am.want_ida_popup, am'.act) ELSE am.want_ida_popup
        ELSE /\ am'.act = NullPtr
             /\ am'.action_handlers = am.action_handlers
             /\ am'.want_hxe_popup = am.want_hxe_popup
             /\ am'.want_ida_popup = am.want_ida_popup]_vars

\* add_action has succeeded with AMAHF_IDA_POPUP alone, after a call that
\* failed: the handler is in want_ida_popup and not in want_hxe_popup.
C39_Witness ==
    /\ am.op = "add_action"
    /\ am.ok
    /\ am.amflags = AMAHF_IDA_POPUP
    /\ am.made > Len(am.action_handlers)
    /\ am.act = am.want_ida_popup[Len(am.want_ida_popup)]
    /\ am.act \notin Elements(am.want_hxe_popup)

=============================================================================
